---- MODULE Spec2Model ----
(***************************************************************************)
(* A model of md-book: the structure detector (structure_detector.py),     *)
(* its configuration (config.py), the writer's chapter creation            *)
(* (book_writer.py) and the reader's navigation (book_reader.py).          *)
(*                                                                         *)
(* Text is modelled as sequences of one-character strings, so that the     *)
(* code's regular expressions, case conversions and comparisons are        *)
(* computed, not assumed.  A markdown file is a sequence of lines, each    *)
(* line classified by what the code can see of it (a "---" delimiter, a    *)
(* "# " heading, a YAML "key: value" line, ...).                           *)
(***************************************************************************)
EXTENDS Integers, Sequences, FiniteSets, TLC

(***************************************************************************)
(* Characters and strings                                                  *)
(***************************************************************************)

\* The characters of the model in code-point order (Python compares strings
\* by code point).
Ascii ==
  << " ", "!", "#", "'", "(", ")", ",", "-", ".", "/",
     "0", "1", "2", "3", "4", "5", "6", "7", "8", "9", ":", "=",
     "A", "B", "C", "D", "E", "F", "G", "H", "I", "J", "K", "L", "M",
     "N", "O", "P", "Q", "R", "S", "T", "U", "V", "W", "X", "Y", "Z",
     "[", "]", "_",
     "a", "b", "c", "d", "e", "f", "g", "h", "i", "j", "k", "l", "m",
     "n", "o", "p", "q", "r", "s", "t", "u", "v", "w", "x", "y", "z" >>

Ord(c) == CHOOSE i \in 1..Len(Ascii) : Ascii[i] = c

DigitChars == <<"0", "1", "2", "3", "4", "5", "6", "7", "8", "9">>

UpperChars ==
  << "A", "B", "C", "D", "E", "F", "G", "H", "I", "J", "K", "L", "M",
     "N", "O", "P", "Q", "R", "S", "T", "U", "V", "W", "X", "Y", "Z" >>

LowerChars ==
  << "a", "b", "c", "d", "e", "f", "g", "h", "i", "j", "k", "l", "m",
     "n", "o", "p", "q", "r", "s", "t", "u", "v", "w", "x", "y", "z" >>

Range(s) == { s[i] : i \in 1..Len(s) }

IsDigit(c) == c \in Range(DigitChars)

IsUpper(c) == c \in Range(UpperChars)

IsLower(c) == c \in Range(LowerChars)

IsAlpha(c) == IsUpper(c) \/ IsLower(c)

\* [-_] of the code's regular expressions
IsSep(c) == c \in {"-", "_"}

\* \s
IsSpace(c) == c = " "

\* \w
IsWord(c) == IsAlpha(c) \/ IsDigit(c) \/ c = "_"

DigitVal(c) == (CHOOSE i \in 1..10 : DigitChars[i] = c) - 1

LowerChar(c) ==
  IF IsUpper(c) THEN LowerChars[CHOOSE i \in 1..26 : UpperChars[i] = c] ELSE c

UpperChar(c) ==
  IF IsLower(c) THEN UpperChars[CHOOSE i \in 1..26 : LowerChars[i] = c] ELSE c

\* str.lower(), str.upper()
Lower(s) == [i \in 1..Len(s) |-> LowerChar(s[i])]

Upper(s) == [i \in 1..Len(s) |-> UpperChar(s[i])]

\* s[n:] of Python, n counted from 0
Drop(s, n) == IF n >= Len(s) THEN << >> ELSE SubSeq(s, n + 1, Len(s))

Take(s, n) == IF n >= Len(s) THEN s ELSE SubSeq(s, 1, n)

StartsWith(s, p) == Len(p) <= Len(s) /\ SubSeq(s, 1, Len(p)) = p

\* p in s, for Python strings
Contains(s, p) ==
  \E i \in 0..Len(s) : i + Len(p) <= Len(s) /\ SubSeq(s, i + 1, i + Len(p)) = p

\* s < t for Python strings: by code point, a proper prefix first
RECURSIVE StrLess(_, _)
StrLess(s, t) ==
  IF t = << >> THEN FALSE
  ELSE IF s = << >> THEN TRUE
  ELSE IF Head(s) = Head(t) THEN StrLess(Tail(s), Tail(t))
  ELSE Ord(Head(s)) < Ord(Head(t))

\* the number of leading characters of s that satisfy digit-ness: ^(\d*)
RECURSIVE DigitRun(_)
DigitRun(s) ==
  IF s # << >> /\ IsDigit(Head(s)) THEN 1 + DigitRun(Tail(s)) ELSE 0

\* the number of leading separators: ^[-_]*
RECURSIVE SepRun(_)
SepRun(s) ==
  IF s # << >> /\ IsSep(Head(s)) THEN 1 + SepRun(Tail(s)) ELSE 0

\* int() of a string of decimal digits
RECURSIVE DecimalValue(_)
DecimalValue(s) ==
  IF s = << >> THEN 0
  ELSE 10 * DecimalValue(SubSeq(s, 1, Len(s) - 1)) + DigitVal(s[Len(s)])

\* the value of a string of octal digits
RECURSIVE OctalValue(_)
OctalValue(s) ==
  IF s = << >> THEN 0
  ELSE 8 * OctalValue(SubSeq(s, 1, Len(s) - 1)) + DigitVal(s[Len(s)])

\* str.strip() for the one whitespace character of the model
RECURSIVE LStrip(_)
LStrip(s) == IF s # << >> /\ IsSpace(Head(s)) THEN LStrip(Tail(s)) ELSE s

RECURSIVE RStrip(_)
RStrip(s) ==
  IF s # << >> /\ IsSpace(s[Len(s)]) THEN RStrip(SubSeq(s, 1, Len(s) - 1)) ELSE s

Strip(s) == LStrip(RStrip(s))

\* str.title(): the first letter of every run of letters in upper case, the
\* other letters in lower case
TitleCase(s) ==
  [i \in 1..Len(s) |->
     IF i > 1 /\ IsAlpha(s[i - 1]) THEN LowerChar(s[i]) ELSE UpperChar(s[i])]

\* the decimal digits of n >= 0
RECURSIVE Decimal(_)
Decimal(n) ==
  IF n < 10 THEN << DigitChars[n + 1] >>
  ELSE Append(Decimal(n \div 10), DigitChars[(n % 10) + 1])

\* the index (from 1) of the first occurrence of p in s at or after position
\* from, 0 when there is none: str.find
RECURSIVE FindFrom(_, _, _)
FindFrom(s, p, from) ==
  IF from + Len(p) - 1 > Len(s) THEN 0
  ELSE IF SubSeq(s, from, from + Len(p) - 1) = p THEN from
  ELSE FindFrom(s, p, from + 1)

Find(s, p) == FindFrom(s, p, 1)

\* the index of the last occurrence of character c in s, 0 when there is none
RECURSIVE LastIndexOf(_, _)
LastIndexOf(s, c) ==
  IF s = << >> THEN 0
  ELSE IF s[Len(s)] = c THEN Len(s)
  ELSE LastIndexOf(SubSeq(s, 1, Len(s) - 1), c)

\* s with every character c removed
RECURSIVE Without(_, _)
Without(s, c) ==
  IF s = << >> THEN << >>
  ELSE IF Head(s) = c THEN Without(Tail(s), c)
  ELSE << Head(s) >> \o Without(Tail(s), c)

\* str.split(sep) for a one-character separator
RECURSIVE SplitOn(_, _)
SplitOn(s, c) ==
  LET i == Find(s, << c >>)
  IN  IF i = 0 THEN << s >>
      ELSE << SubSeq(s, 1, i - 1) >> \o SplitOn(Drop(s, i), c)

(***************************************************************************)
(* Paths (pathlib).  A path is the text of the path relative to the book   *)
(* root, with "/" between its parts; the root itself is the empty path.    *)
(***************************************************************************)

\* parent / rel
Join(parent, rel) == IF parent = << >> THEN rel ELSE parent \o << "/" >> \o rel

\* Path.parent
Parent(path) ==
  LET i == LastIndexOf(path, "/") IN IF i = 0 THEN << >> ELSE SubSeq(path, 1, i - 1)

\* Path.name
NameOf(path) == Drop(path, LastIndexOf(path, "/"))

\* Path.suffix: from the last dot of the name, unless the name starts with it
Suffix(path) ==
  LET name == NameOf(path)
      i == LastIndexOf(name, ".")
  IN  IF i <= 1 \/ i = Len(name) THEN << >> ELSE Drop(name, i - 1)

\* Path.stem
Stem(path) ==
  LET name == NameOf(path)
  IN  Take(name, Len(name) - Len(Suffix(path)))

\* Path.with_suffix('.md')
WithSuffixMd(path) ==
  Take(path, Len(path) - Len(Suffix(path))) \o << ".", "m", "d" >>

DotMd == << ".", "m", "d" >>

(***************************************************************************)
(* Python values, as far as YAML frontmatter produces them                 *)
(***************************************************************************)

\* Every value has the same fields, of which its type uses some: n an
\* integer, s a string, xs the items of a list, kv the entries of a dict.
NoEntries == [k \in {} |-> 0]

PyNone == [t |-> "none", n |-> 0, s |-> << >>, xs |-> << >>, kv |-> NoEntries]

PyInt(i) == [PyNone EXCEPT !.t = "int", !.n = i]

PyStr(str) == [PyNone EXCEPT !.t = "str", !.s = str]

\* True is 1 and False is 0
PyBool(b) == [PyNone EXCEPT !.t = "bool", !.n = IF b THEN 1 ELSE 0]

\* a finite float, kept as the integer int() truncates it to and whether it
\* is zero
PyFloat(trunc) == [PyNone EXCEPT !.t = "float", !.n = trunc]

\* float('inf') and float('nan')
PyInf == [PyNone EXCEPT !.t = "inf"]

PyNan == [PyNone EXCEPT !.t = "nan"]

\* a datetime.date, kept as its ISO text
PyDate(str) == [PyNone EXCEPT !.t = "date", !.s = str]

PyList(items) == [PyNone EXCEPT !.t = "list", !.xs = items]

\* a dict with string keys: a function from key text to value
PyMap(f) == [PyNone EXCEPT !.t = "map", !.kv = f]

\* bool(x): Python's truth value.  (A float that truncates to 0 is taken
\* to be 0.0; the model's floats are written with a zero fraction or none.)
Truthy(x) ==
  CASE x.t = "none" -> FALSE
    [] x.t \in {"int", "bool", "float"} -> x.n # 0
    [] x.t = "str" -> x.s # << >>
    [] x.t = "list" -> x.xs # << >>
    [] x.t = "map" -> DOMAIN x.kv # {}
    [] OTHER -> TRUE

\* The outcome of a Python expression: a value, or the exception it raised.
Ok(v) == [exc |-> "none", val |-> v]

Raise(e) == [exc |-> e, val |-> PyNone]

\* key in x, for a string key: membership for a dict or a list, substring
\* for a string, TypeError for what is not iterable
PyIn(key, x) ==
  CASE x.t = "map" -> Ok(PyBool(key \in DOMAIN x.kv))
    [] x.t = "list" -> Ok(PyBool(\E i \in 1..Len(x.xs) : x.xs[i] = PyStr(key)))
    [] x.t = "str" -> Ok(PyBool(Contains(x.s, key)))
    [] OTHER -> Raise("TypeError")

\* x[key], for a string key: only a dict has string keys
PyGetItem(x, key) ==
  IF x.t = "map"
  THEN IF key \in DOMAIN x.kv THEN Ok(x.kv[key]) ELSE Raise("KeyError")
  ELSE Raise("TypeError")

\* the digits of s with the underscores Python allows between digits removed;
\* << >> when s is not [0-9]+(_[0-9]+)*
DigitsWithUnderscores(s) ==
  IF /\ s # << >>
     /\ \A i \in 1..Len(s) : IsDigit(s[i]) \/ s[i] = "_"
     /\ IsDigit(s[1]) /\ IsDigit(s[Len(s)])
     /\ \A i \in 1..(Len(s) - 1) : ~(s[i] = "_" /\ s[i + 1] = "_")
  THEN Without(s, "_")
  ELSE << >>

\* int(s) for a string: surrounding whitespace and a sign are accepted
IntOfStr(s) ==
  LET body == Strip(s)
      neg == body # << >> /\ Head(body) = "-"
      digits == DigitsWithUnderscores(IF neg THEN Tail(body) ELSE body)
  IN  IF digits = << >> THEN Raise("ValueError")
      ELSE Ok(PyInt(IF neg THEN 0 - DecimalValue(digits) ELSE DecimalValue(digits)))

\* int(x)
PyIntOf(x) ==
  CASE x.t \in {"int", "bool", "float"} -> Ok(PyInt(x.n))
    [] x.t = "inf" -> Raise("OverflowError")
    [] x.t = "nan" -> Raise("ValueError")
    [] x.t = "str" -> IntOfStr(x.s)
    [] OTHER -> Raise("TypeError")

(***************************************************************************)
(* YAML (the PyYAML library: yaml.safe_load, yaml.dump).  The subset of    *)
(* the model: a block mapping of one-line entries whose values are scalars *)
(* or one-line flow lists of scalars, a block list of scalars, a single    *)
(* scalar, comments and blank lines; plain and single-quoted scalars;      *)
(* the implicit types null, bool, decimal and octal int, float, date.      *)
(* Every document the model reads is in this subset.                       *)
(***************************************************************************)

\* the result of a parse: a value, or a YAMLError
YamlOk(v) == [ok |-> TRUE, val |-> v]

YamlErr == [ok |-> FALSE, val |-> PyNone]

NullWords == { <<"n","u","l","l">>, <<"N","u","l","l">>, <<"N","U","L","L">> }

TrueWords ==
  { <<"t","r","u","e">>, <<"T","r","u","e">>, <<"T","R","U","E">>,
    <<"y","e","s">>, <<"Y","e","s">>, <<"Y","E","S">>,
    <<"o","n">>, <<"O","n">>, <<"O","N">> }

FalseWords ==
  { <<"f","a","l","s","e">>, <<"F","a","l","s","e">>, <<"F","A","L","S","E">>,
    <<"n","o">>, <<"N","o">>, <<"N","O">>,
    <<"o","f","f">>, <<"O","f","f">>, <<"O","F","F">> }

\* [0-9][0-9_]* : digits and underscores after a first digit
IsDigitsUnderscores(str) ==
  /\ str # << >>
  /\ IsDigit(str[1])
  /\ \A i \in 1..Len(str) : IsDigit(str[i]) \/ str[i] = "_"

\* [0-9][0-9][0-9][0-9]-[0-9][0-9]-[0-9][0-9]
IsIsoDate(str) ==
  /\ Len(str) = 10
  /\ \A i \in {1, 2, 3, 4, 6, 7, 9, 10} : IsDigit(str[i])
  /\ str[5] = "-" /\ str[8] = "-"

\* The integer of digits (underscores removed): decimal, or octal after a
\* leading 0.
YamlInt(digits) ==
  IF digits = << "0" >> THEN YamlOk(PyInt(0))
  ELSE IF Head(digits) # "0" THEN YamlOk(PyInt(DecimalValue(digits)))
  ELSE IF \A i \in 1..Len(digits) : DigitVal(digits[i]) < 8
       THEN YamlOk(PyInt(OctalValue(digits)))
       ELSE YamlErr

\* The float of the digits before (whole) and after (frac) a dot.
YamlFloat(whole, frac) ==
  IF /\ IsDigitsUnderscores(whole)
     /\ \A i \in 1..Len(frac) : IsDigit(frac[i]) \/ frac[i] = "_"
  THEN YamlOk(PyFloat(DecimalValue(Without(whole, "_"))))
  ELSE YamlErr

\* The implicit type of an unsigned plain scalar that is a number; dot is
\* the place of its first dot, 0 when it has none.
NumberAt(str, dot) ==
  IF dot > 0 THEN YamlFloat(SubSeq(str, 1, dot - 1), Drop(str, dot))
  ELSE IF IsDigitsUnderscores(str) THEN YamlInt(Without(str, "_"))
  ELSE YamlErr

UnsignedNumber(str) == NumberAt(str, Find(str, << "." >>))

\* the number num, negated when neg; the string str when num is no number
SignedOrStr(str, neg, num) ==
  IF ~num.ok THEN PyStr(str)
  ELSE IF neg THEN [num.val EXCEPT !.n = 0 - num.val.n]
  ELSE num.val

\* The value of a plain scalar (PyYAML's implicit resolvers, YAML 1.1); a
\* scalar that matches none of them is a string.
ResolvePlain(str) ==
  IF str = << >> \/ str \in NullWords THEN PyNone
  ELSE IF str \in TrueWords THEN PyBool(TRUE)
  ELSE IF str \in FalseWords THEN PyBool(FALSE)
  ELSE IF Lower(str) = << ".", "i", "n", "f" >> THEN PyInf
  ELSE IF Lower(str) = << ".", "n", "a", "n" >> THEN PyNan
  ELSE IF IsIsoDate(str) THEN PyDate(str)
  ELSE IF Head(str) = "-" THEN SignedOrStr(str, TRUE, UnsignedNumber(Tail(str)))
  ELSE SignedOrStr(str, FALSE, UnsignedNumber(str))

\* the position of the ":" that ends a mapping key: the first one followed
\* by a space or by the end of the line; 0 when there is none
RECURSIVE KeyEndFrom(_, _)
KeyEndFrom(line, i) ==
  IF i > Len(line) THEN 0
  ELSE IF line[i] = ":" /\ (i = Len(line) \/ line[i + 1] = " ") THEN i
  ELSE KeyEndFrom(line, i + 1)

KeyEnd(line) == KeyEndFrom(line, 1)

\* what may follow the closing quote of a scalar: nothing, or a comment
QuotedEnd(rest, acc) ==
  IF rest = << >> \/ Head(rest) = "#" THEN YamlOk(PyStr(acc)) ELSE YamlErr

\* The text of a single-quoted scalar after its opening quote: '' is a
\* quote, a single ' ends the scalar and only a comment may follow it.
RECURSIVE UnquoteFrom(_, _)
UnquoteFrom(str, acc) ==
  IF str = << >> THEN YamlErr
  ELSE IF Head(str) # "'" THEN UnquoteFrom(Tail(str), Append(acc, Head(str)))
  ELSE IF Len(str) >= 2 /\ str[2] = "'" THEN UnquoteFrom(Drop(str, 2), Append(acc, "'"))
  ELSE QuotedEnd(Strip(Tail(str)), acc)

\* the text before the comment that starts at i (0: there is none)
BeforeComment(str, i) == IF i = 0 THEN str ELSE Strip(SubSeq(str, 1, i - 1))

\* a plain scalar without the comment that follows it
CutComment(str) ==
  IF str # << >> /\ Head(str) = "#" THEN << >>
  ELSE BeforeComment(str, Find(str, << " ", "#" >>))

\* a plain scalar, its comment cut
PlainScalar(plain) ==
  IF KeyEnd(plain) > 0 THEN YamlErr
  ELSE IF plain # << >> /\ Head(plain) \in {"!", ",", "[", "]"} THEN YamlErr
  ELSE IF plain = << "-" >> \/ StartsWith(plain, << "-", " " >>) THEN YamlErr
  ELSE YamlOk(ResolvePlain(plain))

\* a scalar: single-quoted or plain
YamlScalar(str) ==
  IF str # << >> /\ Head(str) = "'" THEN UnquoteFrom(Tail(str), << >>)
  ELSE PlainScalar(CutComment(str))

\* the list of the parsed items of a flow list
ListOf(items) ==
  IF \E i \in 1..Len(items) : ~items[i].ok THEN YamlErr
  ELSE YamlOk(PyList([i \in 1..Len(items) |-> items[i].val]))

\* the parts between the commas of a flow list [a, b, c]: none for [], an
\* empty part where an item is missing
FlowParts(inner) ==
  IF inner = << >> THEN << >>
  ELSE [i \in 1..Len(SplitOn(inner, ",")) |-> Strip(SplitOn(inner, ",")[i])]

\* is the text a one-line flow list
IsFlow(str) == str # << >> /\ Head(str) = "["

\* the scalars to parse for a value: the parts of a flow list, or the text
ValueParts(str) ==
  IF IsFlow(str)
  THEN FlowParts(Strip(SubSeq(CutComment(str), 2, Len(CutComment(str)) - 1)))
  ELSE << str >>

\* the value made of the parsed scalars
ValueOf(str, parts, items) ==
  IF ~IsFlow(str) THEN items[1]
  ELSE IF CutComment(str)[Len(CutComment(str))] # "]" THEN YamlErr
  ELSE IF \E i \in 1..Len(parts) : parts[i] = << >> THEN YamlErr
  ELSE ListOf(items)

\* the parsed scalars of the parts
ScalarsOf(parts) == [i \in 1..Len(parts) |-> YamlScalar(parts[i])]

\* the value of a mapping entry, of a list item or of a document: a one-line
\* flow list of scalars, or a scalar
YamlValue(str) == ValueOf(str, ValueParts(str), ScalarsOf(ValueParts(str)))

\* what a line is to the parser
YamlLineKind(line) ==
  IF Strip(line) = << >> \/ Head(LStrip(line)) = "#" THEN "skip"
  ELSE IF line = << "-" >> \/ StartsWith(line, << "-", " " >>) THEN "item"
  ELSE IF Head(line) \notin {"'", "["} /\ KeyEnd(line) > 1 THEN "entry"
  ELSE "scalar"

EntryKey(line) == Strip(SubSeq(line, 1, KeyEnd(line) - 1))

\* the lines of text joined by single spaces (a multi-line plain scalar)
RECURSIVE Folded(_)
Folded(lines) ==
  IF lines = << >> THEN << >>
  ELSE IF Len(lines) = 1 THEN Strip(lines[1])
  ELSE Strip(lines[1]) \o << " " >> \o Folded(Tail(lines))

\* the lines of a document that are neither blank nor comments
RECURSIVE ContentLines(_)
ContentLines(doc) ==
  IF doc = << >> THEN << >>
  ELSE IF YamlLineKind(Head(doc)) = "skip" THEN ContentLines(Tail(doc))
  ELSE << Head(doc) >> \o ContentLines(Tail(doc))

\* the kind of a document: the kind of all its lines, "mixed" when they
\* differ or a line is indented or a scalar of several lines has a quoted
\* or a flow line
DocKind(lines) ==
  IF \E i \in 1..Len(lines) : Head(lines[i]) = " " THEN "mixed"
  ELSE IF \A i \in 1..Len(lines) : YamlLineKind(lines[i]) = "entry" THEN "entry"
  ELSE IF \A i \in 1..Len(lines) : YamlLineKind(lines[i]) = "item" THEN "item"
  ELSE IF \E i \in 1..Len(lines) : YamlLineKind(lines[i]) # "scalar" THEN "mixed"
  ELSE IF Len(lines) > 1 /\ \E i \in 1..Len(lines) : Head(lines[i]) \in {"'", "["}
  THEN "mixed"
  ELSE "scalar"

\* the texts of the values of a document: of every entry, of every item, or
\* the one scalar
ValueTexts(lines, kind) ==
  IF kind = "entry"
  THEN [i \in 1..Len(lines) |-> Strip(Drop(lines[i], KeyEnd(lines[i])))]
  ELSE IF kind = "item" THEN [i \in 1..Len(lines) |-> Strip(Drop(lines[i], 1))]
  ELSE << Folded(lines) >>

\* the line of the last entry with the key
LastOf(lines, key) ==
  CHOOSE i \in 1..Len(lines) :
    /\ EntryKey(lines[i]) = key
    /\ \A j \in (i + 1)..Len(lines) : EntryKey(lines[j]) # key

\* the dict of the entries: of entries with the same key the last one counts
MappingOf(lines, values) ==
  IF \E i \in 1..Len(values) : ~values[i].ok THEN YamlErr
  ELSE YamlOk(PyMap([k \in { EntryKey(lines[i]) : i \in 1..Len(lines) } |->
                       values[LastOf(lines, k)].val]))

\* the document made of the parsed values
DocumentOf(lines, kind, values) ==
  IF kind = "entry" THEN MappingOf(lines, values)
  ELSE IF kind = "item" THEN ListOf(values)
  ELSE values[1]

\* the parsed values of the texts
ValuesOf(texts) == [i \in 1..Len(texts) |-> YamlValue(texts[i])]

\* a document of content lines
LoadLines(lines) ==
  IF lines = << >> THEN YamlOk(PyNone)
  ELSE IF DocKind(lines) = "mixed" THEN YamlErr
  ELSE DocumentOf(lines, DocKind(lines), ValuesOf(ValueTexts(lines, DocKind(lines))))

\* yaml.safe_load of a document given as its lines
YamlLoad(doc) == LoadLines(ContentLines(doc))

(***************************************************************************)
(* The state                                                               *)
(***************************************************************************)

VARIABLES
  files,       \* the readable regular files under the book root: path -> the
               \* lines of the text, as content.split('\n') gives them
  unreadable,  \* paths that exist and whose read_text raises (undecodable
               \* bytes, no permission)
  dirs,        \* the directories under the book root
  pc,          \* where detect_structure is
  probed,      \* the manifests whose existence detect_structure has tested
  entered,     \* the parsers and the auto-detector, in the order entered
  structure,   \* the BookStructure returned, once pc = "done"
  raised,      \* the exception that left detect_structure, "none" if none
  written,     \* history: the chapters the writer's new-chapter command has
               \* written, each with its file, its number and its title
  reader       \* the BookReader: whether it is constructed, its chapter
               \* index (number -> chapter), total_chapters, current_chapter

vars ==
  << files, unreadable, dirs, pc, probed, entered, structure, raised, written,
     reader >>

\* no BookReader is constructed
NoReader ==
  [constructed |-> FALSE, chapters |-> << >>, total_chapters |-> 0, current_chapter |-> 0]

\* Path.exists
Exists(path) == path \in DOMAIN files \/ path \in unreadable \/ path \in dirs

\* the book root, as a path
Root == << >>

(***************************************************************************)
(* Frontmatter and titles (structure_detector.py)                          *)
(***************************************************************************)

Dashes == << "-", "-", "-" >>

TitleKey == << "t", "i", "t", "l", "e" >>

AuthorKey == << "a", "u", "t", "h", "o", "r" >>

DateKey == << "d", "a", "t", "e" >>

DraftKey == << "d", "r", "a", "f", "t" >>

ChapterKey == << "c", "h", "a", "p", "t", "e", "r" >>

\* content.startswith('---')
StartsWithDashes(lines) == lines # << >> /\ StartsWith(lines[1], Dashes)

\* re.search(r'\n---\s*\n', content[3:]): the first line after the first
\* that is "---" and trailing whitespace and is followed by a line break;
\* 0 when there is none
RECURSIVE ClosingLineFrom(_, _)
ClosingLineFrom(lines, j) ==
  IF j >= Len(lines) THEN 0
  ELSE IF StartsWith(lines[j], Dashes) /\ Strip(Drop(lines[j], 3)) = << >> THEN j
  ELSE ClosingLineFrom(lines, j + 1)

ClosingLine(lines) == ClosingLineFrom(lines, 2)

\* content[3:3 + end_match.start()], as lines
FrontmatterText(lines) ==
  << Drop(lines[1], 3) >> \o SubSeq(lines, 2, ClosingLine(lines) - 1)

\* the value loaded, None when the text did not load
LoadedOrNone(loaded) == IF loaded.ok THEN loaded.val ELSE PyNone

\* _parse_frontmatter: the loaded value, None when there is no frontmatter
\* or it does not load
ParseFrontmatter(lines) ==
  IF ~StartsWithDashes(lines) THEN PyNone
  ELSE IF ClosingLine(lines) = 0 THEN PyNone
  ELSE LoadedOrNone(YamlLoad(FrontmatterText(lines)))

\* the first line that, stripped, starts with "# ": its index, 0 if none
RECURSIVE HeadingLineFrom(_, _)
HeadingLineFrom(lines, i) ==
  IF i > Len(lines) THEN 0
  ELSE IF StartsWith(Strip(lines[i]), << "#", " " >>) THEN i
  ELSE HeadingLineFrom(lines, i + 1)

\* line[2:].strip() of the heading line i; None if there is none (i = 0)
HeadingAt(lines, i) == IF i = 0 THEN PyNone ELSE PyStr(Strip(Drop(Strip(lines[i]), 2)))

\* the loop over the lines of _extract_title_from_file
FirstHeading(lines) == HeadingAt(lines, HeadingLineFrom(lines, 1))

\* "'title' in frontmatter" gave has: then frontmatter['title'], else the
\* first heading
TitleIfHas(lines, fm, has) ==
  IF has.exc # "none" THEN Raise(has.exc)
  ELSE IF Truthy(has.val) THEN PyGetItem(fm, TitleKey)
  ELSE Ok(FirstHeading(lines))

\* if frontmatter and 'title' in frontmatter: return frontmatter['title'];
\* else the first heading
TitleOrHeading(lines, fm) ==
  IF ~Truthy(fm) THEN Ok(FirstHeading(lines))
  ELSE TitleIfHas(lines, fm, PyIn(TitleKey, fm))

\* _extract_title_from_file: the title (any value), None, or an exception
ExtractTitleFromFile(path) ==
  IF path \notin DOMAIN files THEN Ok(PyNone)
  ELSE IF ~StartsWithDashes(files[path]) THEN Ok(FirstHeading(files[path]))
  ELSE TitleOrHeading(files[path], ParseFrontmatter(files[path]))

\* re.sub(r'[-_]+', ' ', s)
RECURSIVE SepsToSpaces(_)
SepsToSpaces(str) ==
  IF str = << >> THEN << >>
  ELSE IF IsSep(Head(str)) THEN << " " >> \o SepsToSpaces(Drop(str, SepRun(str)))
  ELSE << Head(str) >> \o SepsToSpaces(Tail(str))

\* re.sub(r'^\d+[-_]?', '', stem)
StripLeadingNumber(stem) ==
  LET d == DigitRun(stem)
  IN  IF d = 0 THEN stem
      ELSE IF d < Len(stem) /\ IsSep(stem[d + 1]) THEN Drop(stem, d + 1)
      ELSE Drop(stem, d)

\* _title_from_filename
TitleFromFilename(stem) == TitleCase(SepsToSpaces(StripLeadingNumber(stem)))

(***************************************************************************)
(* Chapters                                                                *)
(***************************************************************************)

\* Chapter(number, title, file_path, is_intro) with the dataclass defaults.
\* title and the frontmatter fields hold Python values.  Two history fields
\* record what the parser assigned before enrichment: assigned (the number)
\* and provisional (the title).
NewChapter(number, title, path, isIntro) ==
  [ number |-> number, title |-> title, file_path |-> path,
    is_intro |-> isIntro, is_draft |-> PyBool(FALSE),
    author |-> PyNone, date |-> PyNone, metadata |-> PyMap(NoEntries),
    assigned |-> number, provisional |-> title ]

\* The outcome of a step that builds a chapter: the chapter, or an exception.
Built(ch) == [exc |-> "none", ch |-> ch]

Failed(e) == [exc |-> e, ch |-> NewChapter(0, PyNone, << >>, FALSE)]

\* "key in frontmatter" gave has and frontmatter[key] gave got: the
\* chapter with the field set, kept as it is when the key is absent
Assigned(out, field, has, got) ==
  IF has.exc # "none" THEN Failed(has.exc)
  ELSE IF ~Truthy(has.val) THEN out
  ELSE IF got.exc # "none" THEN Failed(got.exc)
  ELSE Built([out.ch EXCEPT ![field] = got.val])

\* if key in frontmatter: <field> = frontmatter[key]
SetFromKey(out, fm, key, field) ==
  IF out.exc # "none" THEN out
  ELSE Assigned(out, field, PyIn(key, fm), PyGetItem(fm, key))

\* chapter.date = str(frontmatter['date']): the text of a string or a date
\* is itself; for the other values the model keeps the value
SetDate(out, fm) == SetFromKey(out, fm, DateKey, "date")

\* chapter.number = int(...) gave num; except (ValueError, TypeError): pass
NumberSet(out, num) ==
  IF num.exc \in {"TypeError", "ValueError"} THEN out
  ELSE IF num.exc # "none" THEN Failed(num.exc)
  ELSE Built([out.ch EXCEPT !.number = num.val.n])

\* int(frontmatter['chapter']), frontmatter['chapter'] having given got
IntOfItem(got) == IF got.exc # "none" THEN Raise(got.exc) ELSE PyIntOf(got.val)

\* "'chapter' in frontmatter" gave has
NumberIfHas(out, fm, has) ==
  IF has.exc # "none" THEN Failed(has.exc)
  ELSE IF ~Truthy(has.val) THEN out
  ELSE NumberSet(out, IntOfItem(PyGetItem(fm, ChapterKey)))

\* if 'chapter' in frontmatter: try: number = int(frontmatter['chapter'])
\* except (ValueError, TypeError): pass
SetNumber(out, fm) ==
  IF out.exc # "none" THEN out ELSE NumberIfHas(out, fm, PyIn(ChapterKey, fm))

\* chapter.metadata = frontmatter
SetMetadata(out, fm) ==
  IF out.exc # "none" THEN out ELSE Built([out.ch EXCEPT !.metadata = fm])

\* _enrich_with_frontmatter, the frontmatter parsed
Enriched(ch, fm) ==
  IF ~Truthy(fm) THEN Built(ch)
  ELSE SetMetadata(
         SetNumber(
           SetFromKey(
             SetDate(
               SetFromKey(
                 SetFromKey(Built(ch), fm, TitleKey, "title"),
                 fm, AuthorKey, "author"),
               fm),
             fm, DraftKey, "is_draft"),
           fm),
         fm)

\* _enrich_with_frontmatter
EnrichWithFrontmatter(ch) ==
  IF ch.file_path \notin DOMAIN files THEN Built(ch)
  ELSE Enriched(ch, ParseFrontmatter(files[ch.file_path]))

\* x or y
PyOr(x, y) == IF Truthy(x) THEN x ELSE y

(***************************************************************************)
(* Configuration (config.py)                                               *)
(***************************************************************************)

\* BookReaderConfig.INTRO_FILES, in priority order
INTRO_FILES ==
  << << "R","E","A","D","M","E",".","m","d" >>,
     << "r","e","a","d","m","e",".","m","d" >>,
     << "i","n","d","e","x",".","m","d" >>,
     << "I","N","D","E","X",".","m","d" >>,
     << "i","n","t","r","o","d","u","c","t","i","o","n",".","m","d" >>,
     << "I","N","T","R","O","D","U","C","T","I","O","N",".","m","d" >>,
     << "0","0","-","i","n","t","r","o","d","u","c","t","i","o","n",".","m","d" >>,
     << "0","0","-","i","n","t","r","o",".","m","d" >> >>

\* BookReaderConfig.SKIP_FILES
SKIP_FILES ==
  { << "C","O","N","T","R","I","B","U","T","I","N","G",".","m","d" >>,
    << "C","H","A","N","G","E","L","O","G",".","m","d" >>,
    << "L","I","C","E","N","S","E",".","m","d" >>,
    << "C","O","D","E","_","O","F","_","C","O","N","D","U","C","T",".","m","d" >> }

\* The words of BookReaderConfig.CHAPTER_FILE_PATTERNS that stand before the
\* number, each with whether [-_]? may follow it: chapter[-_]?, ch, part[-_]?
\* (the first pattern, ^(\d+)[-_](.+)\.md$, has no word).
ChapterWords ==
  << [word |-> << "c","h","a","p","t","e","r" >>, sep |-> TRUE],
     [word |-> << "c","h" >>, sep |-> FALSE],
     [word |-> << "p","a","r","t" >>, sep |-> TRUE] >>

\* the sort key's number of a file without one
NoNumber == 999999

(***************************************************************************)
(* Auto-detection (structure_detector.py)                                  *)
(***************************************************************************)

\* everything that exists under the root
Entries == DOMAIN files \cup unreadable \cup dirs

EndsWith(str, p) == Len(p) <= Len(str) /\ Drop(str, Len(str) - Len(p)) = p

ChapterDash == << "c","h","a","p","t","e","r","-" >>

\* the entries of directory dir that a glob of the code can give: '*.md' or,
\* in the root, 'chapter-*'
Listed(dir) ==
  { p \in Entries :
      /\ Parent(p) = dir
      /\ \/ EndsWith(NameOf(p), DotMd)
         \/ dir = Root /\ StartsWith(p, ChapterDash) }

\* the arrangements of a finite set
Arrangements(set) ==
  { q \in [1..Cardinality(set) -> set] : \A i, j \in DOMAIN q : i # j => q[i] # q[j] }

\* The orders the directory listings may come in (Path.glob gives no
\* order): for every directory an arrangement of its entries.
RECURSIVE ListingsOf(_)
ListingsOf(ds) ==
  IF ds = {} THEN { [d \in {} |-> << >>] }
  ELSE LET d == CHOOSE x \in ds : TRUE
       IN  { [e \in DOMAIN f \cup {d} |-> IF e = d THEN q ELSE f[e]] :
               f \in ListingsOf(ds \ {d}), q \in Arrangements(Listed(d)) }

Listings == ListingsOf(dirs \cup {Root})

\* the listing of a directory; of something that is no directory, nothing
ListDir(dir, ls) == IF dir \in DOMAIN ls THEN ls[dir] ELSE << >>

\* the paths of a list that end in .md
RECURSIVE OnlyMd(_)
OnlyMd(list) ==
  IF list = << >> THEN << >>
  ELSE IF EndsWith(NameOf(Head(list)), DotMd) THEN << Head(list) >> \o OnlyMd(Tail(list))
  ELSE OnlyMd(Tail(list))

\* dir.glob('*.md') under the listing orders ls
GlobMd(dir, ls) == OnlyMd(ListDir(dir, ls))

\* the paths of a list whose name starts with "chapter-"
RECURSIVE OnlyChapterStar(_)
OnlyChapterStar(list) ==
  IF list = << >> THEN << >>
  ELSE IF StartsWith(NameOf(Head(list)), ChapterDash)
       THEN << Head(list) >> \o OnlyChapterStar(Tail(list))
       ELSE OnlyChapterStar(Tail(list))

\* book_root.glob('chapter-*'): files as well as directories
GlobChapterStar(ls) == OnlyChapterStar(ListDir(Root, ls))

\* sorted(paths), for paths of one directory
RECURSIVE InsertPath(_, _)
InsertPath(sorted, path) ==
  IF sorted = << >> THEN << path >>
  ELSE IF StrLess(path, Head(sorted)) THEN << path >> \o sorted
  ELSE << Head(sorted) >> \o InsertPath(Tail(sorted), path)

RECURSIVE SortedPaths(_)
SortedPaths(paths) ==
  IF paths = << >> THEN << >>
  ELSE InsertPath(SortedPaths(SubSeq(paths, 1, Len(paths) - 1)), paths[Len(paths)])

\* re.match(r'.*<word>\.md$', name, re.IGNORECASE)
MatchesSuffix(path, word) == EndsWith(Lower(NameOf(path)), word \o DotMd)

\* the priority patterns of _pick_best_content_file
PrioritySuffixes ==
  << << "c","o","m","p","l","e","t","e" >>,
     << "e","n","h","a","n","c","e","d" >>,
     << "r","e","v","i","s","e","d" >>,
     << "f","i","n","a","l" >> >>

\* the first file of the list that matches the word, << >> if none
RECURSIVE FirstMatching(_, _)
FirstMatching(list, word) ==
  IF list = << >> THEN << >>
  ELSE IF MatchesSuffix(Head(list), word) THEN Head(list)
  ELSE FirstMatching(Tail(list), word)

\* _pick_best_content_file, for a list that is not empty
RECURSIVE PickFrom(_, _)
PickFrom(list, k) ==
  IF k > Len(PrioritySuffixes) THEN list[1]
  ELSE IF FirstMatching(list, PrioritySuffixes[k]) # << >>
       THEN FirstMatching(list, PrioritySuffixes[k])
       ELSE PickFrom(list, k + 1)

\* A faulty choice, for testing the priority of the suffixes: the first
\* file listed, whatever the names are.
FirstListed(list) == list[1]

PickBestContentFile(list) == PickFrom(list, 1)

\* [f for f in list if not f.name.startswith('_')]
RECURSIVE NotUnderscored(_)
NotUnderscored(list) ==
  IF list = << >> THEN << >>
  ELSE IF StartsWith(NameOf(Head(list)), << "_" >>) THEN NotUnderscored(Tail(list))
  ELSE << Head(list) >> \o NotUnderscored(Tail(list))

ContentDir == << "c","o","n","t","e","n","t" >>

\* the best of the files, none of no files
BestOf(list) == IF list = << >> THEN << >> ELSE << PickBestContentFile(list) >>

\* the best of the content files, else the best of the direct files
BestOfEither(contentFiles, directFiles) ==
  IF contentFiles # << >> THEN BestOf(contentFiles) ELSE BestOf(directFiles)

\* content_dir.glob('*.md') if content_dir.exists()
ContentFiles(contentDir, ls) ==
  IF Exists(contentDir) THEN GlobMd(contentDir, ls) ELSE << >>

\* the file one chapter-* entry contributes, as a list of at most one
FromChapterDir(chapterDir, ls) ==
  BestOfEither(ContentFiles(Join(chapterDir, ContentDir), ls),
               NotUnderscored(GlobMd(chapterDir, ls)))

RECURSIVE FromChapterDirs(_, _)
FromChapterDirs(chapterDirs, ls) ==
  IF chapterDirs = << >> THEN << >>
  ELSE FromChapterDir(Head(chapterDirs), ls) \o FromChapterDirs(Tail(chapterDirs), ls)

\* the flat collection's test of one top-level markdown file, by its name
KeepsName(name) ==
  /\ ~StartsWith(name, << "_" >>)
  /\ Upper(name) \notin { << "S","U","M","M","A","R","Y",".","M","D" >>,
                          << "B","O","O","K",".","T","X","T" >> }
  /\ name \notin Range(INTRO_FILES)
  /\ name \notin SKIP_FILES

FlatKeeps(path) == KeepsName(NameOf(path))

RECURSIVE FlatFiles(_)
FlatFiles(list) ==
  IF list = << >> THEN << >>
  ELSE IF FlatKeeps(Head(list)) THEN << Head(list) >> \o FlatFiles(Tail(list))
  ELSE FlatFiles(Tail(list))

\* the files of the chapter-* entries if there are any, else the flat files
CollectFrom(chapterDirs, ls) ==
  IF chapterDirs # << >> THEN FromChapterDirs(chapterDirs, ls)
  ELSE FlatFiles(GlobMd(Root, ls))

\* _collect_markdown_files
CollectMarkdownFiles(ls) == CollectFrom(SortedPaths(GlobChapterStar(ls)), ls)

\* the number of the digits that start tail, -1 when it starts with none
LeadingNumber(tail) ==
  IF DigitRun(tail) > 0 THEN DecimalValue(Take(tail, DigitRun(tail))) ELSE -1

\* rest without the one separator it may start with
AfterSep(rest) == IF rest # << >> /\ IsSep(Head(rest)) THEN Tail(rest) ELSE rest

\* the number a chapter word of the configuration gives a lower-cased name:
\* the digits after the word and at most one separator; -1 when the pattern
\* does not match
NumberAfterWord(lname, w) ==
  IF ~(StartsWith(lname, w.word) /\ EndsWith(lname, DotMd)) THEN -1
  ELSE IF w.sep THEN LeadingNumber(AfterSep(Drop(lname, Len(w.word))))
  ELSE LeadingNumber(Drop(lname, Len(w.word)))

\* the number of the first pattern that matches, from the k-th on
RECURSIVE PatternNumber(_, _)
PatternNumber(lname, k) ==
  IF k > Len(ChapterWords) THEN NoNumber
  ELSE IF NumberAfterWord(lname, ChapterWords[k]) >= 0
       THEN NumberAfterWord(lname, ChapterWords[k])
       ELSE PatternNumber(lname, k + 1)

\* the number of a sort key: of the leading digits of the stem, else of a
\* chapter pattern, else the number that sorts last
KeyNumber(stem, name) ==
  IF DigitRun(stem) > 0 THEN DecimalValue(Take(stem, DigitRun(stem)))
  ELSE PatternNumber(Lower(name), 1)

\* _extract_sort_key: (number, stem)
ExtractSortKey(path) == [n |-> KeyNumber(Stem(path), NameOf(path)), name |-> Stem(path)]

\* (a, x) < (b, y) for sort keys a, b and lower-cased names x, y: tuples
\* compare item by item
KeyLess(a, x, b, y) ==
  IF a.n # b.n THEN a.n < b.n
  ELSE IF a.name # b.name THEN StrLess(a.name, b.name)
  ELSE StrLess(x, y)

\* the order of the keys (self._extract_sort_key(p), p.name.lower())
SortKeyLess(p, q) ==
  KeyLess(ExtractSortKey(p), Lower(NameOf(p)), ExtractSortKey(q), Lower(NameOf(q)))

\* A faulty sort, for testing the order property: the files stay in the
\* order they were collected in.
Unsorted(paths) == paths

\* A faulty insertion, for testing the determinism property: the file goes
\* to the end, whatever its key.
AppendedLast(sorted, path) == Append(sorted, path)

\* list.sort(key=...): stable
RECURSIVE InsertByKey(_, _)
InsertByKey(sorted, path) ==
  IF sorted = << >> THEN << path >>
  ELSE IF SortKeyLess(path, Head(sorted)) THEN << path >> \o sorted
  ELSE << Head(sorted) >> \o InsertByKey(Tail(sorted), path)

RECURSIVE SortByKey(_)
SortByKey(paths) ==
  IF paths = << >> THEN << >>
  ELSE InsertByKey(SortByKey(SubSeq(paths, 1, Len(paths) - 1)), paths[Len(paths)])

\* BookStructure(format_type, root_path=book_root) with its defaults
Structure(fmt, chapters) ==
  [ format_type |-> fmt, title |-> PyNone, author |-> PyNone,
    chapters |-> chapters, root_path |-> Root ]

NoStructure == Structure("none", << >>)

\* What a parser gives back: the structure it returns or the exception it
\* lets through, and the parsers entered on the way.
Returned(st, trace) ==
  [exc |-> "none", fallback |-> FALSE, structure |-> st, trace |-> trace]

Thrown(e, trace) ==
  [exc |-> e, fallback |-> FALSE, structure |-> NoStructure, trace |-> trace]

\* "return self._auto_detect()" in a parser: the caller goes on with
\* auto-detection.  The structure is the one whose chapters the mdBook
\* parser takes from the result; every other parser returns the result
\* itself (format type "none" here).
FallsBack(st, trace) ==
  [exc |-> "none", fallback |-> TRUE, structure |-> st, trace |-> trace]

\* What a loop over entries gives back: the chapters, or the exception.
Chapters(list) == [exc |-> "none", chapters |-> list]

Broken(e) == [exc |-> e, chapters |-> << >>]

\* chapters.append(chapter) after the chapter was made, unless making it
\* raised
Added(chapters, made) ==
  IF made.exc # "none" THEN Broken(made.exc)
  ELSE Chapters(Append(chapters, made.ch))

\* Chapter(number, title or fallback, path, is_intro), enriched; title is
\* what _extract_title_from_file gave
Titled(number, title, fallback, path, isIntro) ==
  IF title.exc # "none" THEN Failed(title.exc)
  ELSE EnrichWithFrontmatter(NewChapter(number, PyOr(title.val, fallback), path, isIntro))

\* A faulty chapter maker, for testing the title property: it never looks
\* into the file for a title and takes the fallback.
MakeUntitled(number, fallback, path, isIntro) ==
  Titled(number, Ok(PyNone), fallback, path, isIntro)

\* title = self._extract_title_from_file(path) or fallback, then the
\* chapter and its enrichment
MakeChapter(number, fallback, path, isIntro) ==
  Titled(number, ExtractTitleFromFile(path), fallback, path, isIntro)

\* what a parser returns after its loop: the structure of the chapters
Parsed(fmt, all, trace) ==
  IF all.exc # "none" THEN Thrown(all.exc, trace)
  ELSE Returned(Structure(fmt, all.chapters), trace)

Introduction == << "I","n","t","r","o","d","u","c","t","i","o","n" >>

\* the first of INTRO_FILES that exists in the root, from the k-th on; << >>
\* when none does
RECURSIVE FirstIntroFile(_)
FirstIntroFile(k) ==
  IF k > Len(INTRO_FILES) THEN << >>
  ELSE IF Exists(Join(Root, INTRO_FILES[k])) THEN Join(Root, INTRO_FILES[k])
  ELSE FirstIntroFile(k + 1)

\* the intro chapter of the file, no chapter when there is no file
IntroOf(path) ==
  IF path = << >> THEN Chapters(<< >>)
  ELSE Added(<< >>, MakeChapter(0, PyStr(Introduction), path, TRUE))

\* the first loop of _auto_detect: the intro chapter, if there is one
IntroChapters == IntroOf(FirstIntroFile(1))

\* any(c.file_path == file_path for c in chapters)
HasFile(chapters, path) == \E i \in 1..Len(chapters) : chapters[i].file_path = path

\* the second loop of _auto_detect, over the sorted files; done holds the
\* chapters so far, or the exception that ended the loop
RECURSIVE NumberFiles(_, _, _)
NumberFiles(list, done, chapterNum) ==
  IF done.exc # "none" \/ list = << >> THEN done
  ELSE IF HasFile(done.chapters, Head(list)) \/ NameOf(Head(list)) \in SKIP_FILES
  THEN NumberFiles(Tail(list), done, chapterNum)
  ELSE NumberFiles(Tail(list),
                   Added(done.chapters,
                         MakeChapter(chapterNum + 1,
                                     PyStr(TitleFromFilename(Stem(Head(list)))),
                                     Head(list), FALSE)),
                   chapterNum + 1)

\* _auto_detect, under the listing orders ls; trace names the parsers
\* entered before it
AutoDetect(ls, trace) ==
  Parsed("auto",
         NumberFiles(SortByKey(CollectMarkdownFiles(ls)), IntroChapters, 0),
         Append(trace, "auto"))

(***************************************************************************)
(* The SUMMARY.md parser                                                   *)
(***************************************************************************)

NoLink == [found |-> FALSE, title |-> << >>, path |-> << >>]

\* the link "[title](path)" of line[i..k], with "]" at j, if it is one
LinkAt(line, i, j, k) ==
  IF /\ line[i] = "["
     /\ j > i + 1
     /\ j < Len(line) /\ line[j + 1] = "("
     /\ k > 0
     /\ k - (j + 2) >= 4
     /\ EndsWith(SubSeq(line, j + 2, k - 1), DotMd)
  THEN [found |-> TRUE, title |-> SubSeq(line, i + 1, j - 1),
        path |-> SubSeq(line, j + 2, k - 1)]
  ELSE NoLink

\* the first ")" after the "(" that follows the first "]" after position i
CloseAfter(line, j) == FindFrom(line, << ")" >>, j + 2)

\* the match of link_pattern at position i, if there is one
MatchAt(line, i) ==
  LinkAt(line, i, FindFrom(line, << "]" >>, i + 1),
         CloseAfter(line, FindFrom(line, << "]" >>, i + 1)))

\* link_pattern.search(line), link_pattern = \[([^\]]+)\]\(([^)]+\.md)\):
\* the leftmost "[" from which the pattern matches
RECURSIVE LinkFrom(_, _)
LinkFrom(line, i) ==
  IF i > Len(line) THEN NoLink
  ELSE IF MatchAt(line, i).found THEN MatchAt(line, i)
  ELSE LinkFrom(line, i + 1)

\* A faulty search, for testing the link property: link_pattern.match, which
\* finds a link at the start of the line only.
LinkAtStart(line) ==
  IF line # << >> /\ Head(line) = "[" THEN LinkFrom(line, 1) ELSE NoLink

SearchLink(line) == LinkFrom(line, 1)

SummaryIntroNames ==
  { << "r","e","a","d","m","e",".","m","d" >>,
    << "i","n","d","e","x",".","m","d" >>,
    << "i","n","t","r","o","d","u","c","t","i","o","n",".","m","d" >> }

\* the file a link's path names: under the book root, else beside the
\* manifest (which may not exist either)
ResolveLink(summaryPath, relPath) ==
  IF Exists(Join(Root, relPath)) THEN Join(Root, relPath)
  ELSE Join(Parent(summaryPath), relPath)

\* rel_path.lower() in ['readme.md', 'index.md', 'introduction.md']
SummaryIsIntro(relPath) == Lower(relPath) \in SummaryIntroNames

\* the chapter of a link: number 0 for an intro name, else the next number
LinkChapter(title, path, isIntro, chapterNum) ==
  EnrichWithFrontmatter(
    NewChapter(IF isIntro THEN 0 ELSE chapterNum + 1, PyStr(title), path, isIntro))

\* the searches of the lines
SearchLinks(lines) == [i \in 1..Len(lines) |-> SearchLink(lines[i])]

\* A faulty count, for testing the numbering of Book.txt: an intro chapter
\* takes a number too.
AlwaysAdvanced(chapterNum, isIntro) == chapterNum + 1

\* the number of chapters numbered so far, after a chapter was added
Advanced(chapterNum, isIntro) == IF isIntro THEN chapterNum ELSE chapterNum + 1

\* the loop of _parse_summary_md over the lines, links holding the search
\* of every line; done holds the chapters so far, or the exception
RECURSIVE SummaryLines(_, _, _, _)
SummaryLines(summaryPath, links, done, chapterNum) ==
  IF done.exc # "none" \/ links = << >> THEN done
  ELSE IF ~Head(links).found
  THEN SummaryLines(summaryPath, Tail(links), done, chapterNum)
  ELSE IF ~Exists(ResolveLink(summaryPath, Strip(Head(links).path)))
  THEN SummaryLines(summaryPath, Tail(links), done, chapterNum)
  ELSE SummaryLines(summaryPath, Tail(links),
                    Added(done.chapters,
                          LinkChapter(Strip(Head(links).title),
                                      ResolveLink(summaryPath, Strip(Head(links).path)),
                                      SummaryIsIntro(Strip(Head(links).path)),
                                      chapterNum)),
                    Advanced(chapterNum, SummaryIsIntro(Strip(Head(links).path))))

\* _parse_summary_md
ParseSummaryMd(summaryPath, trace) ==
  IF summaryPath \notin DOMAIN files
  THEN FallsBack(NoStructure, Append(trace, "summary"))
  ELSE Parsed("summary",
              SummaryLines(summaryPath, SearchLinks(files[summaryPath]),
                           Chapters(<< >>), 0),
              Append(trace, "summary"))

(***************************************************************************)
(* The Book.txt parser                                                     *)
(***************************************************************************)

Manuscript == << "m","a","n","u","s","c","r","i","p","t" >>

LeanpubMarkers ==
  { << "f","r","o","n","t","m","a","t","t","e","r",":" >>,
    << "m","a","i","n","m","a","t","t","e","r",":" >>,
    << "b","a","c","k","m","a","t","t","e","r",":" >> }

LeanpubIntroNames ==
  { << "i","n","t","r","o","d","u","c","t","i","o","n",".","m","d" >>,
    << "p","r","e","f","a","c","e",".","m","d" >>,
    << "f","o","r","e","w","o","r","d",".","m","d" >> }

\* manuscript_dir if manuscript_dir.exists() else self.book_root
BaseDir == IF Exists(Manuscript) THEN Manuscript ELSE Root

\* base_dir / line, else book_root / line
ResolveLeanpub(line) ==
  IF Exists(Join(BaseDir, line)) THEN Join(BaseDir, line) ELSE Join(Root, line)

\* not line or line.startswith('#'), or a section marker
LeanpubSkips(line) ==
  line = << >> \/ Head(line) = "#" \/ line \in LeanpubMarkers

\* line.lower() in ['introduction.md', 'preface.md', 'foreword.md']
LeanpubIsIntro(line) == Lower(line) \in LeanpubIntroNames

\* the chapter of a manifest entry whose title falls back to the stem of
\* the file: number 0 for an intro, else the next number
StemTitled(path, isIntro, chapterNum) ==
  MakeChapter(IF isIntro THEN 0 ELSE chapterNum + 1, PyStr(Stem(path)), path, isIntro)

\* line.strip() of every line
StrippedLines(lines) == [i \in 1..Len(lines) |-> Strip(lines[i])]

\* the loop of _parse_leanpub over the stripped lines; done holds the
\* chapters so far, or the exception
RECURSIVE LeanpubLines(_, _, _)
LeanpubLines(lines, done, chapterNum) ==
  IF done.exc # "none" \/ lines = << >> THEN done
  ELSE IF LeanpubSkips(Head(lines))
  THEN LeanpubLines(Tail(lines), done, chapterNum)
  ELSE IF ~(Exists(ResolveLeanpub(Head(lines))) /\ Suffix(ResolveLeanpub(Head(lines))) = DotMd)
  THEN LeanpubLines(Tail(lines), done, chapterNum)
  ELSE LeanpubLines(Tail(lines),
                    Added(done.chapters,
                          StemTitled(ResolveLeanpub(Head(lines)),
                                     LeanpubIsIntro(Head(lines)), chapterNum)),
                    Advanced(chapterNum, LeanpubIsIntro(Head(lines))))

\* A faulty Book.txt parser, for testing the fallback property: it returns
\* an empty structure when the file cannot be read.
LeanpubWithoutFallback(bookTxtPath, trace) ==
  IF bookTxtPath \notin DOMAIN files
  THEN Returned(Structure("leanpub", << >>), Append(trace, "leanpub"))
  ELSE Parsed("leanpub",
              LeanpubLines(StrippedLines(files[bookTxtPath]), Chapters(<< >>), 0),
              Append(trace, "leanpub"))

\* _parse_leanpub
ParseLeanpub(bookTxtPath, trace) ==
  IF bookTxtPath \notin DOMAIN files
  THEN FallsBack(NoStructure, Append(trace, "leanpub"))
  ELSE Parsed("leanpub",
              LeanpubLines(StrippedLines(files[bookTxtPath]), Chapters(<< >>), 0),
              Append(trace, "leanpub"))

(***************************************************************************)
(* The _bookdown.yml parser                                                *)
(***************************************************************************)

\* whether the yaml package could be imported (YAML_AVAILABLE); the writer
\* imports it unconditionally
YamlAvailable == TRUE

BookFilenameKey == << "b","o","o","k","_","f","i","l","e","n","a","m","e" >>

RmdFilesKey == << "r","m","d","_","f","i","l","e","s" >>

IndexWord == << "i","n","d","e","x" >>

\* d.get(key, default), for a dict d
DictGet(d, key, default) == IF key \in DOMAIN d.kv THEN d.kv[key] ELSE default

\* what "for x in v" iterates over: the items of a list, the characters of
\* a string; TypeError for None, numbers, booleans and dates.  (A dict is
\* not the value of a key in the YAML subset.)
Iterate(v) ==
  CASE v.t = "list" -> Ok(v)
    [] v.t = "str" -> Ok(PyList([i \in 1..Len(v.s) |-> PyStr(<< v.s[i] >>)]))
    [] OTHER -> Raise("TypeError")

\* the file an rmd_files entry names: itself, else with the suffix .md;
\* << >> when neither exists
ResolveBookdown(fileName) ==
  IF Exists(Join(Root, fileName)) THEN Join(Root, fileName)
  ELSE IF Exists(WithSuffixMd(Join(Root, fileName))) THEN WithSuffixMd(Join(Root, fileName))
  ELSE << >>

\* ('index' in file_name.lower() or file_name == rmd_files[0]) and
\* chapter_num == 0
BookdownIsIntro(item, first, chapterNum) ==
  (Contains(Lower(item.s), IndexWord) \/ item = first) /\ chapterNum = 0

\* the loop of _parse_bookdown over rmd_files; first is rmd_files[0], done
\* holds the chapters so far, or the exception
RECURSIVE BookdownEntries(_, _, _, _)
BookdownEntries(items, first, done, chapterNum) ==
  IF done.exc # "none" \/ items = << >> THEN done
  ELSE IF Head(items).t # "str" THEN Broken("TypeError")
  ELSE IF ResolveBookdown(Head(items).s) = << >>
  THEN BookdownEntries(Tail(items), first, done, chapterNum)
  ELSE BookdownEntries(Tail(items), first,
                       Added(done.chapters,
                             StemTitled(ResolveBookdown(Head(items).s),
                                        BookdownIsIntro(Head(items), first, chapterNum),
                                        chapterNum)),
                       Advanced(chapterNum,
                                BookdownIsIntro(Head(items), first, chapterNum)))

\* rmd_files[0], as far as the loop reads it
FirstOf(xs) == IF xs = << >> THEN PyNone ELSE xs[1]

\* config.get('book_filename', config.get('title'))
BookdownTitle(config) ==
  DictGet(config, BookFilenameKey, DictGet(config, TitleKey, PyNone))

\* the structure a parser returns, with the title it was given before
WithTitle(got, title) ==
  IF got.exc # "none" \/ got.fallback THEN got
  ELSE Returned([got.structure EXCEPT !.title = title], got.trace)

\* the loop over what iterating rmd_files gives
BookdownOver(rmdFiles, here) ==
  IF rmdFiles.exc # "none" THEN Thrown(rmdFiles.exc, here)
  ELSE Parsed("bookdown",
              BookdownEntries(rmdFiles.val.xs, FirstOf(rmdFiles.val.xs),
                              Chapters(<< >>), 0),
              here)

\* _parse_bookdown once the document is loaded: config.get fails on
\* anything that is not a dict
BookdownOf(config, here) ==
  IF config.t # "map" THEN Thrown("AttributeError", here)
  ELSE WithTitle(BookdownOver(Iterate(DictGet(config, RmdFilesKey, PyList(<< >>))), here),
                 BookdownTitle(config))

\* the except clause around yaml.safe_load
BookdownLoaded(loaded, here) ==
  IF ~loaded.ok THEN FallsBack(NoStructure, here) ELSE BookdownOf(loaded.val, here)

\* _parse_bookdown
ParseBookdown(bookdownPath, trace) ==
  IF ~YamlAvailable \/ bookdownPath \notin DOMAIN files
  THEN FallsBack(NoStructure, Append(trace, "bookdown"))
  ELSE BookdownLoaded(YamlLoad(files[bookdownPath]), Append(trace, "bookdown"))

(***************************************************************************)
(* The book.toml parser.  TOML (the tomllib library) in the subset of the  *)
(* model: [table] headers and key = value lines whose values are literal   *)
(* strings 'text', integers, booleans and one-line arrays of them.         *)
(***************************************************************************)

\* whether tomllib or tomli could be imported (TOML_AVAILABLE)
TomlAvailable == TRUE

\* a TOML value; a bare word is an error
TomlScalar(str) ==
  IF Len(str) >= 2 /\ Head(str) = "'" /\ str[Len(str)] = "'"
       /\ "'" \notin Range(SubSeq(str, 2, Len(str) - 1))
  THEN YamlOk(PyStr(SubSeq(str, 2, Len(str) - 1)))
  ELSE IF str # << >> /\ \A i \in 1..Len(str) : IsDigit(str[i])
            /\ (Len(str) = 1 \/ Head(str) # "0")
  THEN YamlOk(PyInt(DecimalValue(str)))
  ELSE IF str = << "t","r","u","e" >> THEN YamlOk(PyBool(TRUE))
  ELSE IF str = << "f","a","l","s","e" >> THEN YamlOk(PyBool(FALSE))
  ELSE YamlErr

\* the values of the parts of an array
TomlItems(parts) == [i \in 1..Len(parts) |-> TomlScalar(Strip(parts[i]))]

\* the array whose text between the brackets is inner
TomlArray(inner) ==
  IF inner = << >> THEN YamlOk(PyList(<< >>))
  ELSE ListOf(TomlItems(SplitOn(inner, ",")))

TomlValue(str) ==
  IF str = << >> \/ Head(str) # "[" THEN TomlScalar(str)
  ELSE IF str[Len(str)] # "]" THEN YamlErr
  ELSE TomlArray(Strip(SubSeq(str, 2, Len(str) - 1)))

\* d with d[key] = v
DictSet(d, key, v) ==
  PyMap([k \in DOMAIN d.kv \cup {key} |-> IF k = key THEN v ELSE d.kv[k]])

\* The parser's state between lines: whether the text was valid so far,
\* the name of the table the lines belong to (<< >> at the top), and the
\* document so far.
TomlStart == [ok |-> TRUE, table |-> << >>, doc |-> PyMap(NoEntries)]

TomlFail == [ok |-> FALSE, table |-> << >>, doc |-> PyMap(NoEntries)]

\* a [name] line
TomlTable(st, line, name) ==
  IF line[Len(line)] # "]" \/ name = << >> \/ name \in DOMAIN st.doc.kv
  THEN TomlFail
  ELSE [ok |-> TRUE, table |-> name, doc |-> DictSet(st.doc, name, PyMap(NoEntries))]

\* the table the lines belong to
TomlInto(st) == IF st.table = << >> THEN st.doc ELSE st.doc.kv[st.table]

\* key = val in the current table; a key may be given once
TomlAssign(st, key, val) ==
  IF key = << >> \/ ~val.ok \/ key \in DOMAIN TomlInto(st).kv THEN TomlFail
  ELSE [st EXCEPT !.doc =
          IF st.table = << >> THEN DictSet(st.doc, key, val.val)
          ELSE DictSet(st.doc, st.table, DictSet(TomlInto(st), key, val.val))]

\* a key = value line, with "=" at eq
TomlKeyValue(st, line, eq) ==
  IF eq <= 1 THEN TomlFail
  ELSE TomlAssign(st, Strip(SubSeq(line, 1, eq - 1)), TomlValue(Strip(Drop(line, eq))))

\* one stripped line, with its first "=" at eq (0 if it has none)
TomlEntry(st, line, eq) ==
  IF line = << >> \/ Head(line) = "#" THEN st
  ELSE IF Head(line) = "[" /\ eq = 0
  THEN TomlTable(st, line, SubSeq(line, 2, Len(line) - 1))
  ELSE TomlKeyValue(st, line, eq)

TomlLine(st, line) == TomlEntry(st, line, Find(line, << "=" >>))

RECURSIVE TomlLines(_, _)
TomlLines(lines, st) ==
  IF ~st.ok \/ lines = << >> THEN st
  ELSE TomlLines(Tail(lines), TomlLine(st, Strip(Head(lines))))

\* the document, or the TOMLDecodeError
TomlResult(st) == IF st.ok THEN YamlOk(st.doc) ELSE YamlErr

\* tomllib.loads, line by line
TomlLoads(lines) == TomlResult(TomlLines(lines, TomlStart))

BookKey == << "b","o","o","k" >>

AuthorsKey == << "a","u","t","h","o","r","s" >>

SrcSummary == << "s","r","c","/","S","U","M","M","A","R","Y",".","m","d" >>

\* x[0]
FirstItem(x) ==
  CASE x.t = "list" /\ x.xs # << >> -> Ok(x.xs[1])
    [] x.t = "list" -> Raise("IndexError")
    [] x.t = "str" /\ x.s # << >> -> Ok(PyStr(<< x.s[1] >>))
    [] x.t = "str" -> Raise("IndexError")
    [] OTHER -> Raise("TypeError")

\* what the try block leaves when it sets nothing
NoMetadata == [title |-> PyNone, author |-> PyNone]

\* ...get('authors', [None])[0] if ...get('authors') else None; first is
\* what taking item 0 gives.  An exception leaves the author unset.
AuthorOf(authors, first) ==
  IF Truthy(authors) /\ first.exc = "none" THEN first.val ELSE PyNone

\* the two assignments, for a table "book" that is a dict
BookMetadata(book, authors) ==
  [title |-> DictGet(book, TitleKey, PyNone), author |-> AuthorOf(authors, FirstItem(authors))]

\* config.get('book', {}).get fails when "book" is not a table
MetadataOfBook(book) ==
  IF book.t # "map" THEN NoMetadata
  ELSE BookMetadata(book, DictGet(book, AuthorsKey, PyNone))

MetadataOf(loaded) ==
  IF ~loaded.ok THEN NoMetadata
  ELSE MetadataOfBook(DictGet(loaded.val, BookKey, PyMap(NoEntries)))

\* The try block of _parse_mdbook_toml: the title and the author it sets.
\* What was assigned before an exception stays assigned.
TomlMetadata(tomlPath) ==
  IF ~TomlAvailable \/ tomlPath \notin DOMAIN files THEN NoMetadata
  ELSE MetadataOf(TomlLoads(files[tomlPath]))

\* BookStructure(format_type='mdbook') with the title and the author set
MdbookStructure(meta) ==
  [Structure("mdbook", << >>) EXCEPT !.title = meta.title, !.author = meta.author]

\* A faulty delegation, for testing the mdBook property: the structure of
\* the SUMMARY.md parser is returned as it is.
MdbookKeepsInner(mine, inner) == inner

\* structure.chapters = summary_structure.chapters; return structure
MdbookWith(mine, inner) ==
  IF inner.exc # "none" THEN inner
  ELSE IF inner.fallback THEN FallsBack(mine, inner.trace)
  ELSE Returned([mine EXCEPT !.chapters = inner.structure.chapters], inner.trace)

\* _parse_mdbook_toml
ParseMdbookToml(tomlPath, trace) ==
  IF ~Exists(SrcSummary) THEN FallsBack(NoStructure, Append(trace, "mdbook"))
  ELSE MdbookWith(MdbookStructure(TomlMetadata(tomlPath)),
                  ParseSummaryMd(SrcSummary, Append(trace, "mdbook")))

(***************************************************************************)
(* detect_structure                                                        *)
(***************************************************************************)

SummaryMd == << "S","U","M","M","A","R","Y",".","m","d" >>

BookTxt == << "B","o","o","k",".","t","x","t" >>

BookdownYml == << "_","b","o","o","k","d","o","w","n",".","y","m","l" >>

BookToml == << "b","o","o","k",".","t","o","m","l" >>

\* the return of detect_structure
Finish(got) ==
  /\ pc' = "done"
  /\ entered' = got.trace
  /\ structure' = got.structure
  /\ raised' = got.exc

\* what detect_structure does with what a parser gave: it returns it or,
\* when the parser asked for auto-detection, goes on with _auto_detect,
\* keeping the structure that waits for the detected chapters
Settle(got) ==
  IF got.fallback
  THEN /\ pc' = "auto"
       /\ entered' = got.trace
       /\ structure' = got.structure
       /\ raised' = "none"
  ELSE Finish(got)

\* A faulty first step, for testing the priority property: when SUMMARY.md
\* is absent it goes on to _bookdown.yml, leaving Book.txt out.
SkipsBookTxt ==
  /\ pc = "summary"
  /\ probed' = Append(probed, "summary")
  /\ IF Exists(SummaryMd)
     THEN Settle(ParseSummaryMd(SummaryMd, << >>))
     ELSE pc' = "bookdown" /\ UNCHANGED << entered, structure, raised >>
  /\ UNCHANGED << files, unreadable, dirs, written, reader >>

\* one step of detect_structure: the test of a manifest's existence and,
\* when it exists, the return of what its parser returns
CheckSummary ==
  /\ pc = "summary"
  /\ probed' = Append(probed, "summary")
  /\ IF Exists(SummaryMd)
     THEN Settle(ParseSummaryMd(SummaryMd, << >>))
     ELSE pc' = "leanpub" /\ UNCHANGED << entered, structure, raised >>
  /\ UNCHANGED << files, unreadable, dirs, written, reader >>

CheckLeanpub ==
  /\ pc = "leanpub"
  /\ probed' = Append(probed, "leanpub")
  /\ IF Exists(BookTxt)
     THEN Settle(ParseLeanpub(BookTxt, << >>))
     ELSE pc' = "bookdown" /\ UNCHANGED << entered, structure, raised >>
  /\ UNCHANGED << files, unreadable, dirs, written, reader >>

CheckBookdown ==
  /\ pc = "bookdown"
  /\ probed' = Append(probed, "bookdown")
  /\ IF Exists(BookdownYml)
     THEN Settle(ParseBookdown(BookdownYml, << >>))
     ELSE pc' = "mdbook" /\ UNCHANGED << entered, structure, raised >>
  /\ UNCHANGED << files, unreadable, dirs, written, reader >>

CheckMdbook ==
  /\ pc = "mdbook"
  /\ probed' = Append(probed, "mdbook")
  /\ IF Exists(BookToml)
     THEN Settle(ParseMdbookToml(BookToml, << >>))
     ELSE pc' = "auto" /\ UNCHANGED << entered, structure, raised >>
  /\ UNCHANGED << files, unreadable, dirs, written, reader >>

\* what is returned after _auto_detect: its structure or, for the mdBook
\* parser, the waiting structure with the detected chapters
Detected(waiting, auto) ==
  IF auto.exc = "none" /\ waiting.format_type # "none"
  THEN Returned([waiting EXCEPT !.chapters = auto.structure.chapters], auto.trace)
  ELSE auto

\* _auto_detect, called by detect_structure or by a parser, under some
\* order of the directory listings
FallBack ==
  /\ pc = "auto"
  /\ \E ls \in Listings : Finish(Detected(structure, AutoDetect(ls, entered)))
  /\ UNCHANGED << files, unreadable, dirs, probed, written, reader >>

Detect == CheckSummary \/ CheckLeanpub \/ CheckBookdown \/ CheckMdbook \/ FallBack

\* before detect_structure is called
NotStarted ==
  /\ pc = "summary"
  /\ probed = << >>
  /\ entered = << >>
  /\ structure = NoStructure
  /\ raised = "none"
  /\ reader = NoReader

(***************************************************************************)
(* Books: the filesystems detection is run on                              *)
(***************************************************************************)

\* a path in its three states: no such file, a file with these lines, a file
\* whose read_text raises
Absent == [state |-> "absent", lines |-> << >>]

Readable(lines) == [state |-> "readable", lines |-> lines]

Unreadable == [state |-> "unreadable", lines |-> << >>]

\* a book: the files, the unreadable paths and the directories under a root
Book(fs, bad, ds) == [files |-> fs, unreadable |-> bad, dirs |-> ds]

\* the book with a path put in the given state
Put(book, path, opt) ==
  IF opt.state = "readable"
  THEN [book EXCEPT !.files = (path :> opt.lines) @@ book.files]
  ELSE IF opt.state = "unreadable"
  THEN [book EXCEPT !.unreadable = book.unreadable \cup {path}]
  ELSE book

\* detect_structure is about to be called on the book
StartOn(book) ==
  /\ files = book.files
  /\ unreadable = book.unreadable
  /\ dirs = book.dirs
  /\ written = << >>
  /\ NotStarted

IndexMd == << "i", "n", "d", "e", "x", ".", "m", "d" >>

IntroductionMd == << "i", "n", "t", "r", "o", "d", "u", "c", "t", "i", "o", "n", ".", "m", "d" >>

OneMd == << "o", "n", "e", ".", "m", "d" >>

PrefaceMd == << "m", "a", "n", "u", "s", "c", "r", "i", "p", "t", "/", "p", "r", "e", "f", "a", "c", "e", ".", "m", "d" >>

\* Three markdown files in the root, one more in manuscript/ and in src/.
Shelf ==
  Book( (IndexMd :> << << "#", " ", "H", "o", "m", "e" >> >>)
        @@ (IntroductionMd :> << << "#", " ", "S", "t", "a", "r", "t" >>,
       << "t", "e", "x", "t" >> >>)
        @@ (OneMd :> << << "#", " ", "O", "n", "e" >>,
       << "t", "e", "x", "t" >> >>)
        @@ (PrefaceMd :> << << "#", " ", "P", "r", "e", "f", "a", "c", "e" >> >>)
        @@ (<< "s", "r", "c", "/", "t", "w", "o", ".", "m", "d" >> :> << << "#", " ", "T", "w", "o" >> >>),
        {},
        { << "m", "a", "n", "u", "s", "c", "r", "i", "p", "t" >>, << "s", "r", "c" >> } )

\* contents of SUMMARY.md
SummaryTexts ==
  { << << "#", " ", "S", "u", "m", "m", "a", "r", "y" >>,
       << "-", " ", "[", "S", "t", "a", "r", "t", "]", "(", "i", "n", "t", "r", "o", "d", "u", "c", "t", "i", "o", "n", ".", "m", "d", ")" >>,
       << "-", " ", "[", "O", "n", "e", "]", "(", "o", "n", "e", ".", "m", "d", ")" >> >>,
    << << "-", " ", "[", "H", "o", "m", "e", "]", "(", "i", "n", "d", "e", "x", ".", "m", "d", ")" >>,
       << "-", " ", "[", "S", "t", "a", "r", "t", "]", "(", "i", "n", "t", "r", "o", "d", "u", "c", "t", "i", "o", "n", ".", "m", "d", ")" >>,
       << "-", " ", "[", "O", "n", "e", "]", "(", "o", "n", "e", ".", "m", "d", ")" >> >>,
    << << "-", " ", "[", "O", "n", "e", "]", "(", "o", "n", "e", ".", "m", "d", ")" >>,
       << "-", " ", "[", "T", "w", "o", "]", "(", "t", "w", "o", ".", "m", "d", ")" >> >> }

\* contents of Book.txt
BookTxtTexts ==
  { << << "f", "r", "o", "n", "t", "m", "a", "t", "t", "e", "r", ":" >>,
       << "i", "n", "t", "r", "o", "d", "u", "c", "t", "i", "o", "n", ".", "m", "d" >>,
       << "m", "a", "i", "n", "m", "a", "t", "t", "e", "r", ":" >>,
       << "o", "n", "e", ".", "m", "d" >> >>,
    << << "p", "r", "e", "f", "a", "c", "e", ".", "m", "d" >>,
       << "i", "n", "t", "r", "o", "d", "u", "c", "t", "i", "o", "n", ".", "m", "d" >>,
       << "o", "n", "e", ".", "m", "d" >> >>,
    << << "#", " ", "f", "i", "l", "e", "s" >>,
       << "o", "n", "e", ".", "m", "d" >>,
       << "i", "n", "d", "e", "x", ".", "m", "d" >> >> }

\* contents of _bookdown.yml: two file lists, then nothing, a list, a
\* scalar, a file list that is no list, a list of numbers, no file list,
\* and text that is no YAML
BookdownTexts ==
  { << << "b", "o", "o", "k", "_", "f", "i", "l", "e", "n", "a", "m", "e", ":", " ", "b", "o", "o", "k" >>,
       << "r", "m", "d", "_", "f", "i", "l", "e", "s", ":", " ", "[", "i", "n", "d", "e", "x", ".", "m", "d", ",", " ", "o", "n", "e", ".", "m", "d", "]" >> >>,
    << << "r", "m", "d", "_", "f", "i", "l", "e", "s", ":", " ", "[", "o", "n", "e", ".", "m", "d", ",", " ", "i", "n", "d", "e", "x", ".", "m", "d", "]" >> >>,
    << << >> >>,
    << << "-", " ", "o", "n", "e", ".", "m", "d" >>,
       << "-", " ", "i", "n", "d", "e", "x", ".", "m", "d" >> >>,
    << << "o", "n", "e", ".", "m", "d" >> >>,
    << << "r", "m", "d", "_", "f", "i", "l", "e", "s", ":", " ", "3" >> >>,
    << << "r", "m", "d", "_", "f", "i", "l", "e", "s", ":", " ", "[", "1", ",", " ", "2", "]" >> >>,
    << << "r", "m", "d", "_", "f", "i", "l", "e", "s", ":" >> >>,
    << << "b", "o", "o", "k", "_", "f", "i", "l", "e", "n", "a", "m", "e", ":", " ", "b", "o", "o", "k" >> >>,
    << << "r", "m", "d", "_", "f", "i", "l", "e", "s", ":", " ", "[", "o", "n", "e", ".", "m", "d" >> >> }

\* contents of book.toml
BookTomlTexts ==
  { << << "[", "b", "o", "o", "k", "]" >>,
       << "t", "i", "t", "l", "e", " ", "=", " ", "'", "T", "'" >>,
       << "a", "u", "t", "h", "o", "r", "s", " ", "=", " ", "[", "'", "A", "'", "]" >> >>,
    << << "b", "o", "o", "k", " ", "=", " ", "3" >> >>,
    << << "[", "b", "o", "o", "k" >> >> }

States(texts) == {Absent, Unreadable} \cup { Readable(t) : t \in texts }

\* contents of src/SUMMARY.md
SrcSummaryTexts == { << << "[", "T", "w", "o", "]", "(", "t", "w", "o", ".", "m", "d", ")" >>,
       << "[", "O", "n", "e", "]", "(", "o", "n", "e", ".", "m", "d", ")" >>,
       << "[", "N", "o", "n", "e", "]", "(", "n", "o", "n", "e", ".", "m", "d", ")" >> >> }

(***************************************************************************)
(* Specification Spec: detect_structure on every combination of the four   *)
(* manifests, each absent, unreadable or with one of its texts             *)
(***************************************************************************)

Init ==
  \E s \in States(SummaryTexts), l \in States(BookTxtTexts),
     b \in States(BookdownTexts), t \in States(BookTomlTexts),
     u \in States(SrcSummaryTexts) :
    StartOn(Put(Put(Put(Put(Put(Shelf, SummaryMd, s), BookTxt, l),
                        BookdownYml, b), BookToml, t), SrcSummary, u))

Next == Detect

Spec == Init /\ [][Next]_vars

(***************************************************************************)
(* Properties                                                              *)
(***************************************************************************)

\* the four manifests in the order of their priority
ManifestOrder == << "summary", "leanpub", "bookdown", "mdbook" >>

ManifestPaths == << SummaryMd, BookTxt, BookdownYml, BookToml >>

\* the place in the order of the first manifest there is, 5 when there is
\* none
FirstManifest ==
  IF \E k \in 1..4 : ManifestPaths[k] \in Entries
  THEN CHOOSE k \in 1..4 :
         /\ ManifestPaths[k] \in Entries
         /\ \A j \in 1..(k - 1) : ManifestPaths[j] \notin Entries
  ELSE 5

\* C1: the manifests are tested in the fixed order SUMMARY.md, Book.txt,
\* _bookdown.yml, book.toml and no further than the first one that exists;
\* once detect_structure has returned, the code path it entered is the
\* parser of the first existing manifest, and auto-detection exactly when
\* none of the four exists.
C1_FirstExistingManifestWins ==
  /\ Len(probed) <= 4
  /\ probed = SubSeq(ManifestOrder, 1, Len(probed))
  /\ Len(probed) <= FirstManifest
  /\ pc = "done" =>
       /\ entered # << >>
       /\ IF FirstManifest = 5
          THEN Len(probed) = 4 /\ Head(entered) = "auto"
          ELSE /\ Len(probed) = FirstManifest
               /\ Head(entered) = ManifestOrder[FirstManifest]

\* Book.txt was the first manifest, _bookdown.yml and book.toml were there
\* too, and the Leanpub parser ran.
C1_Witness ==
  /\ pc = "done"
  /\ FirstManifest = 2
  /\ BookdownYml \in Entries
  /\ BookToml \in Entries
  /\ probed = << "summary", "leanpub" >>
  /\ Head(entered) = "leanpub"

\* the places of the intro chapters in the returned structure
IntroPlaces == { i \in DOMAIN structure.chapters : structure.chapters[i].is_intro }

\* C3: in every structure detect_structure returns, whichever parser made
\* it, at most one chapter has is_intro = true.
C3_AtMostOneIntro ==
  (pc = "done" /\ raised = "none") => Cardinality(IntroPlaces) <= 1

\* C7: detect_structure never raises, whatever the manifest files hold:
\* nothing, text that is no YAML or TOML, undecodable bytes, or valid text
\* of the wrong shape.
C7_NeverRaises == raised = "none"

(***************************************************************************)
(* Specification SpecSummary: detect_structure on books whose SUMMARY.md   *)
(* holds up to MaxLines lines                                              *)
(***************************************************************************)

MaxLines == 3

\* lines of a SUMMARY.md: with one link, with two links, with a link to a
\* file that is not there, with a link to an intro file, with no link, with
\* a link to something else than markdown before a link, and with a link to
\* a file whose frontmatter is a list
SummaryLinePool ==
  { << "-", " ", "[", "O", "n", "e", "]", "(", "o", "n", "e", ".", "m", "d", ")" >>,
    << "-", " ", "[", "T", "w", "o", "]", "(", "s", "r", "c", "/", "t", "w", "o", ".", "m", "d", ")", " ", "[", "H", "o", "m", "e", "]", "(", "i", "n", "d", "e", "x", ".", "m", "d", ")" >>,
    << "-", " ", "[", "N", "o", "n", "e", "]", "(", "n", "o", "n", "e", ".", "m", "d", ")" >>,
    << "*", " ", "[", "S", "t", "a", "r", "t", "]", "(", "i", "n", "t", "r", "o", "d", "u", "c", "t", "i", "o", "n", ".", "m", "d", ")" >>,
    << "#", " ", "S", "u", "m", "m", "a", "r", "y" >>,
    << "[", "x", "]", "(", "y", ".", "t", "x", "t", ")", " ", "[", "O", "n", "e", "]", "(", "o", "n", "e", ".", "m", "d", ")" >>,
    << "-", " ", "[", "B", "a", "d", "]", "(", "b", "a", "d", ".", "m", "d", ")" >> }

BadMd == << "b", "a", "d", ".", "m", "d" >>

\* the shelf and a file whose frontmatter block is a YAML list
ShelfWithBad == Put(Shelf, BadMd, Readable(<< << "-", "-", "-" >>,
       << "-", " ", "t", "i", "t", "l", "e" >>,
       << "-", "-", "-" >>,
       << "t", "e", "x", "t" >> >>))

\* the texts of at most n lines over a pool of lines
TextsOver(pool, n) == UNION { [1..k -> pool] : k \in 1..n }

InitSummary ==
  \E text \in TextsOver(SummaryLinePool, MaxLines) :
    StartOn(Put(ShelfWithBad, SummaryMd, Readable(text)))

NextSummary == CheckSummary

SpecSummary == InitSummary /\ [][NextSummary]_vars

\* every match of the link pattern in a line, from the i-th character on
\* (the matches re.finditer gives)
RECURSIVE LinksFrom(_, _)
LinksFrom(line, i) ==
  LET j == FindFrom(line, << "]" >>, i + 1)
      k == FindFrom(line, << ")" >>, j + 2)
  IN  IF i > Len(line) THEN << >>
      ELSE IF /\ line[i] = "["
              /\ j > i + 1
              /\ j < Len(line) /\ line[j + 1] = "("
              /\ k > 0
              /\ k - (j + 2) >= 4
              /\ EndsWith(SubSeq(line, j + 2, k - 1), DotMd)
           THEN << SubSeq(line, j + 2, k - 1) >> \o LinksFrom(line, k + 1)
           ELSE LinksFrom(line, i + 1)

\* the files the links of a text resolve to, in the order of the links;
\* links that resolve to nothing left out
RECURSIVE ResolvableLinks(_, _)
ResolvableLinks(summaryPath, links) ==
  IF links = << >> THEN << >>
  ELSE LET path == ResolveLink(summaryPath, Strip(Head(links)))
       IN  (IF Exists(path) THEN << path >> ELSE << >>)
           \o ResolvableLinks(summaryPath, Tail(links))

RECURSIVE LinksOfText(_)
LinksOfText(lines) ==
  IF lines = << >> THEN << >>
  ELSE LinksFrom(Head(lines), 1) \o LinksOfText(Tail(lines))

\* the files of the chapters returned, in list order
ChapterFiles == [i \in DOMAIN structure.chapters |-> structure.chapters[i].file_path]

\* C2 as claimed: for every SUMMARY.md the chapters returned are, in order,
\* the files of the markdown links of the text that resolve (under the root,
\* else beside the manifest): one chapter for each such link, none for a
\* link that resolves to nothing.
C2_EveryLinkOneChapter ==
  (pc = "done" /\ raised = "none" /\ SummaryMd \in DOMAIN files) =>
    ChapterFiles = ResolvableLinks(SummaryMd, LinksOfText(files[SummaryMd]))

\* the first link of every line that has one
RECURSIVE FirstLinksOfText(_)
FirstLinksOfText(lines) ==
  IF lines = << >> THEN << >>
  ELSE LET all == LinksFrom(Head(lines), 1)
       IN  (IF all = << >> THEN << >> ELSE << Head(all) >>)
           \o FirstLinksOfText(Tail(lines))

\* C2, amended: only the first markdown link of each line counts.  The
\* chapters returned are, in line order, the files that the first links of
\* the lines resolve to, one chapter for each, none for a first link that
\* resolves to nothing; and detection raises only if one of these files has
\* a frontmatter block that is no mapping.
C2_FirstLinkOfEachLine ==
  (pc = "done" /\ SummaryMd \in DOMAIN files) =>
    LET firsts == ResolvableLinks(SummaryMd, FirstLinksOfText(files[SummaryMd]))
    IN  IF raised = "none" THEN ChapterFiles = firsts
        ELSE BadMd \in Range(firsts)

\* A text with more links than lines, two of them resolvable on one line,
\* gave as many chapters as it has lines with a resolvable first link.
C2_Witness ==
  /\ pc = "done"
  /\ raised = "none"
  /\ Len(structure.chapters) = 2
  /\ Len(ResolvableLinks(SummaryMd, LinksOfText(files[SummaryMd]))) = 3
  /\ Len(ResolvableLinks(SummaryMd, FirstLinksOfText(files[SummaryMd]))) = 2

(***************************************************************************)
(* Specification SpecAuto: detect_structure on books without a manifest,   *)
(* holding up to MaxFiles of the files of a pool                           *)
(***************************************************************************)

MaxFiles == 3

ReadmeMd == << "r", "e", "a", "d", "m", "e", ".", "m", "d" >>

Name01 == << "0", "1", "-", "o", "n", "e", ".", "m", "d" >>

Name02 == << "0", "2", "-", "t", "w", "o", ".", "m", "d" >>

\* Files for the root: an intro file, two numbered names, two names without
\* a number that differ in case, a name with a chapter word whose
\* frontmatter gives a chapter number, and a name of the skip list.
AutoPool ==
  (ReadmeMd :> << << "h", "e", "l", "l", "o" >> >>)
  @@ (Name01 :> << << "t", "e", "x", "t" >> >>)
  @@ (Name02 :> << << "#", " ", "T", "w", "o" >> >>)
  @@ (<< "B", ".", "m", "d" >> :> << << "t", "e", "x", "t" >> >>)
  @@ (<< "a", ".", "m", "d" >> :> << << "t", "e", "x", "t" >> >>)
  @@ (<< "c", "h", "3", ".", "m", "d" >> :> << << "-", "-", "-" >>,
       << "c", "h", "a", "p", "t", "e", "r", ":", " ", "7" >>,
       << "-", "-", "-" >>,
       << "t", "e", "x", "t" >> >>)
  @@ (<< "C", "H", "A", "N", "G", "E", "L", "O", "G", ".", "m", "d" >> :> << << "#", " ", "C", "h", "a", "n", "g", "e", "s" >> >>)

\* the function restricted to a set
Restrict(f, set) == [x \in set |-> f[x]]

InitAuto ==
  \E names \in SUBSET DOMAIN AutoPool :
    /\ Cardinality(names) <= MaxFiles
    /\ StartOn(Book(Restrict(AutoPool, names), {}, {}))

NextAuto == Detect

SpecAuto == InitAuto /\ [][NextAuto]_vars

\* the chapters returned that are no intro chapters, in list order
NonIntro == SelectSeq(structure.chapters, LAMBDA c : ~c.is_intro)

FirstMd == << "0", "0", "-", "f", "i", "r", "s", "t", ".", "m", "d" >>

\* names of the second file: a numbered name, a name of digits only, and an
\* intro name
TargetNames == { << "0", "1", "-", "m", "y", "_", "f", "i", "l", "e", ".", "m", "d" >>, << "0", "1", ".", "m", "d" >>, << "R", "E", "A", "D", "M", "E", ".", "m", "d" >> }

\* what stands between the frontmatter delimiters
FrontmatterBlocks ==
  { << << "t", "i", "t", "l", "e", ":", " ", "G", "i", "v", "e", "n" >> >>,
    << << "t", "i", "t", "l", "e", ":", " ", "G", "i", "v", "e", "n" >>,
       << "a", "u", "t", "h", "o", "r", ":", " ", "A" >>,
       << "d", "a", "t", "e", ":", " ", "2", "0", "2", "4", "-", "0", "1", "-", "0", "2" >>,
       << "d", "r", "a", "f", "t", ":", " ", "t", "r", "u", "e" >> >>,
    << << "c", "h", "a", "p", "t", "e", "r", ":", " ", "7" >> >>,
    << << "c", "h", "a", "p", "t", "e", "r", ":", " ", "'", "1", "2", "'" >> >>,
    << << "c", "h", "a", "p", "t", "e", "r", ":", " ", "s", "e", "v", "e", "n" >> >>,
    << << "c", "h", "a", "p", "t", "e", "r", ":" >> >>,
    << << "c", "h", "a", "p", "t", "e", "r", ":", " ", "[", "1", "]" >> >>,
    << << "c", "h", "a", "p", "t", "e", "r", ":", " ", "1", ".", "5" >> >>,
    << << "c", "h", "a", "p", "t", "e", "r", ":", " ", "t", "r", "u", "e" >> >>,
    << << "c", "h", "a", "p", "t", "e", "r", ":", " ", ".", "i", "n", "f" >> >>,
    << << "c", "h", "a", "p", "t", "e", "r", ":", " ", "0" >> >>,
    << << "t", "i", "t", "l", "e", ":", " ", "'", "'" >> >>,
    << << "t", "i", "t", "l", "e", ":" >> >>,
    << << "t", "i", "t", "l", "e", ":", " ", "5" >> >>,
    << << "#", " ", "N", "o", "t", "e" >>,
       << "a", "u", "t", "h", "o", "r", ":", " ", "A" >> >>,
    << << "-", " ", "t", "i", "t", "l", "e" >> >>,
    << << "-", " ", "a" >>,
       << "-", " ", "b" >> >>,
    << << "j", "u", "s", "t", " ", "t", "e", "x", "t" >> >>,
    << << "m", "y", " ", "t", "i", "t", "l", "e" >> >>,
    << << "4", "2" >> >>,
    << << "t", "i", "t", "l", "e", ":", " ", "[", "a" >> >> }

\* what follows: without and with a level-1 heading
Bodies == { << << "t", "e", "x", "t" >>,
       << >> >>, << << "i", "n", "t", "r", "o" >>,
       << "#", " ", "H", "e", "a", "d", " ", "L", "i", "n", "e" >>,
       << "#", "#", " ", "s", "u", "b" >>,
       << >> >> }

\* the texts of the second file: a body alone, a frontmatter block and a
\* body, and a block whose closing delimiter is missing
ChapterTexts ==
  Bodies
  \cup { << Dashes >> \o block \o << Dashes >> \o body :
           block \in FrontmatterBlocks, body \in Bodies }
  \cup { << Dashes >> \o << << "t", "i", "t", "l", "e", ":", " ", "G", "i", "v", "e", "n" >> >> \o body : body \in Bodies }

LinkLine(text, path) == << "-", " ", "[" >> \o text \o << "]", "(" >> \o path \o << ")" >>

FirstText == << "F", "i", "r", "s", "t" >>

Linked == << "L", "i", "n", "k", "e", "d" >>

\* the manifest that names the two files, for each way into the detector
ManifestFor(route, name) ==
  IF route = "summary"
  THEN Put(Book(<< >>, {}, {}), SummaryMd,
           Readable(<< LinkLine(FirstText, FirstMd), LinkLine(Linked, name) >>))
  ELSE IF route = "leanpub"
  THEN Put(Book(<< >>, {}, {}), BookTxt, Readable(<< FirstMd, name >>))
  ELSE IF route = "bookdown"
  THEN Put(Book(<< >>, {}, {}), BookdownYml,
           Readable(<< << "r", "m", "d", "_", "f", "i", "l", "e", "s", ":", " ", "[" >> \o FirstMd \o << ",", " " >> \o name \o << "]" >> >>))
  ELSE IF route = "mdbook"
  THEN Put(Put(Book(<< >>, {}, { << "s", "r", "c" >> }), BookToml, Readable(<< << "[", "b", "o", "o", "k", "]" >>,
       << "t", "i", "t", "l", "e", " ", "=", " ", "'", "T", "'" >> >>)),
           SrcSummary,
           Readable(<< LinkLine(FirstText, FirstMd), LinkLine(Linked, name) >>))
  ELSE Book(<< >>, {}, {})

Routes == { "summary", "leanpub", "bookdown", "mdbook", "auto" }

InitChapter ==
  \E route \in Routes, name \in TargetNames,
     opt \in {Unreadable} \cup { Readable(t) : t \in ChapterTexts } :
    StartOn(Put(Put(ManifestFor(route, name), FirstMd, Readable(<< << "#", " ", "F", "i", "r", "s", "t" >>,
       << "t", "e", "x", "t" >> >>)),
                name, opt))

NextChapter == Detect

SpecChapter == InitChapter /\ [][NextChapter]_vars

(***************************************************************************)
(* Properties of the chapters (SpecChapter)                                *)
(***************************************************************************)

\* detect_structure has returned a structure
HasReturned == pc = "done" /\ raised = "none"

\* what _parse_frontmatter gives for the file, None when it cannot be read
FrontmatterOf(path) ==
  IF path \in DOMAIN files THEN ParseFrontmatter(files[path]) ELSE PyNone

\* the frontmatter is a mapping that has the key
HasKey(fm, key) == fm.t = "map" /\ key \in DOMAIN fm.kv

\* a valid integer: an integer, or the decimal text of one
IsInteger(v) ==
  \/ v.t = "int"
  \/ v.t = "str" /\ v.s # << >> /\ \A i \in 1..Len(v.s) : IsDigit(v.s[i])

IntegerOf(v) == IF v.t = "int" THEN v.n ELSE DecimalValue(v.s)

\* the number the chapter is to have: the frontmatter's, when it is a valid
\* integer, else the one the parser assigned by position
NumberFor(ch) ==
  IF /\ HasKey(FrontmatterOf(ch.file_path), ChapterKey)
     /\ IsInteger(FrontmatterOf(ch.file_path).kv[ChapterKey])
  THEN IntegerOf(FrontmatterOf(ch.file_path).kv[ChapterKey])
  ELSE ch.assigned

\* C5: the number of every chapter is the frontmatter's chapter value when
\* that is a valid integer, and the number assigned by position when there
\* is no chapter key or its value is no integer; a value that is no integer
\* is passed over, it does not end detection.
C5_NumberFromValidIntegerOnly ==
  pc = "done" =>
    /\ raised # "OverflowError"
    /\ raised = "none" =>
         \A i \in DOMAIN structure.chapters :
           structure.chapters[i].number = NumberFor(structure.chapters[i])

\* the file has a frontmatter block that is no mapping (its text is no
\* YAML, or a scalar, or a list), or a block that is not closed, or it
\* cannot be read
NoMapping(path) ==
  \/ path \in unreadable
  \/ /\ path \in DOMAIN files
     /\ StartsWithDashes(files[path])
     /\ FrontmatterOf(path).t # "map"

\* the first level-1 heading of the file, None when it has none or cannot be
\* read
HeadingOf(path) ==
  IF path \in DOMAIN files THEN FirstHeading(files[path]) ELSE PyNone

\* the title from the heading, else from the filename
HeadingOrFilename(path) ==
  IF HeadingOf(path) # PyNone THEN HeadingOf(path)
  ELSE PyStr(TitleFromFilename(Stem(path)))

\* C8: a chapter file whose frontmatter block is no mapping, or is not
\* closed, or that cannot be read, does not make detection raise: it is a
\* chapter of the structure returned, with empty metadata and with the
\* title of its first level-1 heading, or of its filename when it has none.
C8_MalformedFrontmatterStillChapter ==
  pc = "done" =>
    \A p \in TargetNames :
      (Exists(p) /\ NoMapping(p)) =>
        /\ raised = "none"
        /\ \E i \in DOMAIN structure.chapters :
             /\ structure.chapters[i].file_path = p
             /\ structure.chapters[i].metadata = PyMap(NoEntries)
             /\ structure.chapters[i].title = HeadingOrFilename(p)

\* C9: every chapter of every structure returned has a title that is a
\* string and not empty.
C9_TitleNeverEmpty ==
  HasReturned =>
    \A i \in DOMAIN structure.chapters :
      /\ structure.chapters[i].title.t = "str"
      /\ structure.chapters[i].title.s # << >>

\* the lines after the frontmatter block, all lines when there is no closed
\* block
BodyOf(lines) ==
  IF StartsWithDashes(lines) /\ ClosingLine(lines) > 0
  THEN Drop(lines, ClosingLine(lines))
  ELSE lines

\* the title by the claimed priority: the frontmatter's, else the first
\* level-1 heading of the body, else the one made of the filename
ClaimedTitle(path) ==
  IF HasKey(FrontmatterOf(path), TitleKey) THEN FrontmatterOf(path).kv[TitleKey]
  ELSE IF path \in DOMAIN files /\ FirstHeading(BodyOf(files[path])) # PyNone
  THEN FirstHeading(BodyOf(files[path]))
  ELSE PyStr(TitleFromFilename(Stem(path)))

MadeBy == entered[Len(entered)]

\* the manifest the link parser read
LinkManifest == IF Head(entered) = "mdbook" THEN SrcSummary ELSE SummaryMd

\* the text of the link of the manifest that names the file
RECURSIVE LinkTitleIn(_, _, _)
LinkTitleIn(summaryPath, lines, path) ==
  IF lines = << >> THEN PyNone
  ELSE IF /\ SearchLink(Head(lines)).found
          /\ ResolveLink(summaryPath, Strip(SearchLink(Head(lines)).path)) = path
  THEN PyStr(Strip(SearchLink(Head(lines)).title))
  ELSE LinkTitleIn(summaryPath, Tail(lines), path)

\* the title by the sources the parsers use
SourcedTitle(ch) ==
  IF HasKey(FrontmatterOf(ch.file_path), TitleKey)
  THEN FrontmatterOf(ch.file_path).kv[TitleKey]
  ELSE IF MadeBy = "summary"
  THEN LinkTitleIn(LinkManifest, files[LinkManifest], ch.file_path)
  ELSE IF HeadingOf(ch.file_path) # PyNone THEN HeadingOf(ch.file_path)
  ELSE IF MadeBy \in {"leanpub", "bookdown"} THEN PyStr(Stem(ch.file_path))
  ELSE IF ch.is_intro THEN PyStr(Introduction)
  ELSE PyStr(TitleFromFilename(Stem(ch.file_path)))

ChaptersDir == Root

\* book_root / name, seen from the chapters directory
InBookRoot(name) == << ".", ".", "/" >> \o name

BookYaml == InBookRoot(<< "b", "o", "o", "k", ".", "y", "a", "m", "l" >>)

WriterSummary == InBookRoot(<< "S", "U", "M", "M", "A", "R", "Y", ".", "m", "d" >>)

\* re.sub(r'[^\w\s-]', '', text)
RECURSIVE OnlySlugChars(_)
OnlySlugChars(text) ==
  IF text = << >> THEN << >>
  ELSE IF IsWord(Head(text)) \/ IsSpace(Head(text)) \/ Head(text) = "-"
  THEN << Head(text) >> \o OnlySlugChars(Tail(text))
  ELSE OnlySlugChars(Tail(text))

\* the number of leading characters in [\s_-]
RECURSIVE GapRun(_)
GapRun(s) ==
  IF s # << >> /\ (IsSpace(Head(s)) \/ IsSep(Head(s))) THEN 1 + GapRun(Tail(s)) ELSE 0

\* re.sub(r'[\s_-]+', '-', text)
RECURSIVE GapsToHyphens(_)
GapsToHyphens(s) ==
  IF s = << >> THEN << >>
  ELSE IF GapRun(s) > 0 THEN << "-" >> \o GapsToHyphens(Drop(s, GapRun(s)))
  ELSE << Head(s) >> \o GapsToHyphens(Tail(s))

\* text.strip('-')
RECURSIVE LStripHyphens(_)
LStripHyphens(s) ==
  IF s # << >> /\ Head(s) = "-" THEN LStripHyphens(Tail(s)) ELSE s

RECURSIVE RStripHyphens(_)
RStripHyphens(s) ==
  IF s # << >> /\ s[Len(s)] = "-" THEN RStripHyphens(SubSeq(s, 1, Len(s) - 1)) ELSE s

\* slugify
Slugify(text) ==
  LStripHyphens(RStripHyphens(GapsToHyphens(OnlySlugChars(Strip(Lower(text))))))

\* the chapter files of the file map fs: the items of iterdir() that are
\* files with the suffix .md
MdItems(fs) ==
  { p \in DOMAIN fs \cup unreadable : Parent(p) = ChaptersDir /\ Suffix(p) = DotMd }

\* int(match.group(1)) of re.match(r'^(\d+)', stem), for a stem that matches
StemNumber(stem) == DecimalValue(Take(stem, DigitRun(stem)))

\* the numbers the stems of the chapter files start with
NumbersInUse ==
  { StemNumber(Stem(p)) : p \in { q \in MdItems(files) : DigitRun(Stem(q)) > 0 } }

\* max(max_num, ...) over the numbers, from max_num = 0
MaxNum(numbers) ==
  IF numbers = {} THEN 0 ELSE CHOOSE m \in numbers : \A n \in numbers : n <= m

\* A faulty numbering, for testing the writer's numbering: one more than the
\* count of the chapter files.
NextByCount == Cardinality(MdItems(files)) + 1

\* get_next_chapter_number
GetNextChapterNumber ==
  IF ~Exists(ChaptersDir) THEN 1 ELSE MaxNum(NumbersInUse) + 1

\* f"{chapter_num:02d}"
TwoDigits(n) == IF n < 10 THEN << "0" >> \o Decimal(n) ELSE Decimal(n)

\* f"{chapter_num:02d}-{slug}.md"
ChapterFilename(chapterNum, slug) == TwoDigits(chapterNum) \o << "-" >> \o slug \o DotMd

\* yaml.dump of a string (the emitter's analyze_scalar): the characters that
\* may not start a plain scalar
LeadingIndicators == { "#", ",", "[", "]", "!", "'" }

\* the text has an indicator that keeps it from being a plain scalar of a
\* block mapping: at its start, ": " or a ":" at its end, " #", or the
\* start of a document marker
BlockIndicator(str) ==
  \/ Head(str) \in LeadingIndicators
  \/ Head(str) \in { ":", "-" } /\ (Len(str) = 1 \/ str[2] = " ")
  \/ \E i \in 2..Len(str) :
       \/ str[i] = ":" /\ (i = Len(str) \/ str[i + 1] = " ")
       \/ str[i] = "#" /\ str[i - 1] = " "
  \/ StartsWith(str, Dashes)
  \/ StartsWith(str, << ".", ".", "." >>)

\* the string may be written plain: it is not empty, has no space at either
\* end and no indicator, and read back plain it is a string
PlainAllowed(str) ==
  /\ str # << >>
  /\ Head(str) # " " /\ str[Len(str)] # " "
  /\ ~BlockIndicator(str)
  /\ ResolvePlain(str) = PyStr(str)

\* the text with every quote doubled
RECURSIVE QuotesDoubled(_)
QuotesDoubled(str) ==
  IF str = << >> THEN << >>
  ELSE IF Head(str) = "'" THEN << "'", "'" >> \o QuotesDoubled(Tail(str))
  ELSE << Head(str) >> \o QuotesDoubled(Tail(str))

\* A faulty dump, for testing the round trip: every string written plain.
DumpPlain(str) == str

\* yaml.dump of a string of one short line: plain, else single-quoted
DumpStr(str) ==
  IF PlainAllowed(str) THEN str ELSE << "'" >> \o QuotesDoubled(str) \o << "'" >>

\* a line "key: value" of a dumped mapping
DumpEntry(key, text) == key \o << ":", " " >> \o text

\* date.today().isoformat()
Today == << "2", "0", "2", "4", "-", "0", "5", "-", "0", "6" >>

\* yaml.dump(frontmatter, default_flow_style=False): the keys in sorted
\* order, one line each
FrontmatterYaml(title, chapterNum, draft) ==
  << DumpEntry(ChapterKey, Decimal(chapterNum)), DumpEntry(DateKey, DumpStr(Today)) >>
  \o (IF draft THEN << DumpEntry(DraftKey, << "t", "r", "u", "e" >>) >> ELSE << >>)
  \o << DumpEntry(TitleKey, DumpStr(title)) >>

\* f"---\n{frontmatter_yaml}---\n\n# {title}\n\n", as lines
ChapterContent(title, chapterNum, draft) ==
  << Dashes >> \o FrontmatterYaml(title, chapterNum, draft)
  \o << Dashes, << >>, << "#", " " >> \o title, << >>, << >> >>

\* a line that is "---" and whitespace
IsFence(line) == StartsWith(line, Dashes) /\ Strip(Drop(line, 3)) = << >>

\* the first line from the i-th on that is not blank, 0 when there is none
RECURSIVE FirstNonBlank(_, _)
FirstNonBlank(lines, i) ==
  IF i > Len(lines) THEN 0
  ELSE IF Strip(lines[i]) # << >> THEN i
  ELSE FirstNonBlank(lines, i + 1)

NoFence == [from |-> 0, close |-> 0]

\* The match of r'^---\s*\n(.*?)\n---\s*\n' on a text whose first line is a
\* fence: the first \s* takes the blank lines up to line s, the group goes
\* from there to the first fence after it that a line break follows (at
\* later); when there is none, the group is empty and line s the fence.
FenceMatch(lines, s, later) ==
  IF s = 0 THEN NoFence
  ELSE IF later > 0 THEN [from |-> s, close |-> later]
  ELSE IF s >= 3 /\ s < Len(lines) /\ IsFence(lines[s]) THEN [from |-> s, close |-> s]
  ELSE NoFence

FenceFrom(lines, s) == FenceMatch(lines, s, ClosingLineFrom(lines, s + 1))

\* yaml.safe_load(...) or {}; except yaml.YAMLError: {}
LoadedOrEmpty(loaded) ==
  IF loaded.ok /\ Truthy(loaded.val) THEN loaded.val ELSE PyMap(NoEntries)

\* content[match.end():]: the last \s* of the pattern takes the blank lines
\* after the fence; first is the first line that is not blank
BodyFrom(lines, first) == IF first = 0 THEN << >> ELSE Drop(lines, first - 1)

\* the frontmatter and the body, for the match m
SplitAt(lines, m) ==
  IF m.close = 0 THEN [frontmatter |-> PyMap(NoEntries), body |-> lines]
  ELSE [frontmatter |-> LoadedOrEmpty(YamlLoad(SubSeq(lines, m.from, m.close - 1))),
        body |-> BodyFrom(lines, FirstNonBlank(lines, m.close + 1))]

\* parse_frontmatter of the writer
WriterParseFrontmatter(lines) ==
  IF lines = << >> \/ ~IsFence(lines[1])
  THEN [frontmatter |-> PyMap(NoEntries), body |-> lines]
  ELSE SplitAt(lines, FenceFrom(lines, FirstNonBlank(lines, 2)))

\* the text the group of r'^#\s+(.+)$' takes when only whitespace follows
\* the "#" on its line: that of the next line that is not blank (line k).
\* When none follows, the title is empty or there is no match, which is the
\* same to the caller.
NextText(lines, k) == IF k = 0 THEN PyNone ELSE PyStr(Strip(lines[k]))

\* extract_title_from_content: re.search(r'^#\s+(.+)$', content,
\* re.MULTILINE), from line i on
RECURSIVE HashTitleFrom(_, _)
HashTitleFrom(lines, i) ==
  IF i > Len(lines) THEN PyNone
  ELSE IF lines[i] = << >> \/ Head(lines[i]) # "#" THEN HashTitleFrom(lines, i + 1)
  ELSE IF Len(lines[i]) > 1 /\ lines[i][2] # " " THEN HashTitleFrom(lines, i + 1)
  ELSE IF Strip(Tail(lines[i])) # << >> THEN PyStr(Strip(Tail(lines[i])))
  ELSE NextText(lines, FirstNonBlank(lines, i + 1))

ExtractTitleFromContent(lines) == HashTitleFrom(lines, 1)

\* the least of a set of paths
Least(paths) == CHOOSE p \in paths : \A q \in paths \ {p} : StrLess(p, q)

\* sorted(paths)
RECURSIVE InOrder(_)
InOrder(paths) ==
  IF paths = {} THEN << >>
  ELSE << Least(paths) >> \o InOrder(paths \ {Least(paths)})

\* What scanning gives: the chapter dicts, or the exception.
Scanned(list) == [exc |-> "none", chapters |-> list]

ScanFailed(e) == [exc |-> e, chapters |-> << >>]

\* int(match.group(1)) if match else 0
NumberOfStem(stem) == IF DigitRun(stem) > 0 THEN StemNumber(stem) ELSE 0

\* the dict of a chapter file, its text split (frontmatter.get fails on
\* what is no dict)
ChapterDict(path, split) ==
  IF split.frontmatter.t # "map" THEN ScanFailed("AttributeError")
  ELSE Scanned(<< [ number |-> NumberOfStem(Stem(path)),
                    title |-> PyOr(PyOr(DictGet(split.frontmatter, TitleKey, PyNone),
                                        ExtractTitleFromContent(split.body)),
                                   PyStr(Stem(path))),
                    file |-> NameOf(path),
                    draft |-> DictGet(split.frontmatter, DraftKey, PyBool(FALSE)) ] >>)

\* one round of the loop of scan_chapters, over the file map fs
ScanItem(fs, path) ==
  IF path \notin DOMAIN fs THEN ScanFailed("UnicodeDecodeError")
  ELSE ChapterDict(path, WriterParseFrontmatter(fs[path]))

\* chapters.append(...), unless the round raised
Appended(done, one) ==
  IF one.exc # "none" THEN one ELSE Scanned(done.chapters \o one.chapters)

\* the loop of scan_chapters over the sorted items
RECURSIVE ScanItems(_, _, _)
ScanItems(fs, items, done) ==
  IF done.exc # "none" \/ items = << >> THEN done
  ELSE ScanItems(fs, Tail(items), Appended(done, ScanItem(fs, Head(items))))

\* sorted(chapters, key=lambda c: c['number']): a stable sort
RECURSIVE InsertByNumber(_, _)
InsertByNumber(sorted, ch) ==
  IF sorted = << >> THEN << ch >>
  ELSE IF ch.number < Head(sorted).number THEN << ch >> \o sorted
  ELSE << Head(sorted) >> \o InsertByNumber(Tail(sorted), ch)

RECURSIVE SortByNumber(_)
SortByNumber(list) ==
  IF list = << >> THEN << >>
  ELSE InsertByNumber(SortByNumber(SubSeq(list, 1, Len(list) - 1)), list[Len(list)])

ScanSorted(scan) ==
  IF scan.exc # "none" THEN scan ELSE Scanned(SortByNumber(scan.chapters))

\* scan_chapters, over the file map fs
ScanChapters(fs) ==
  IF ~Exists(ChaptersDir) THEN Scanned(<< >>)
  ELSE ScanSorted(ScanItems(fs, InOrder(MdItems(fs)), Scanned(<< >>)))

\* str(x) in an f-string, for the values titles are: strings, integers,
\* booleans and dates
PyText(x) ==
  CASE x.t = "int" -> Decimal(x.n)
    [] x.t = "bool" -> IF x.n = 1 THEN << "T", "r", "u", "e" >> ELSE << "F", "a", "l", "s", "e" >>
    [] x.t = "none" -> << "N", "o", "n", "e" >>
    [] OTHER -> x.s

\* f"{prefix}[{ch['title']}](chapters/{ch['file']})"
SummaryLine(ch) ==
  (IF Truthy(ch.draft) THEN << "-", " ", "[", "D", "R", "A", "F", "T", "]", " " >> ELSE << "-", " " >>)
  \o << "[" >> \o PyText(ch.title) \o << "]", "(", "c", "h", "a", "p", "t", "e", "r", "s", "/" >> \o ch.file \o << ")" >>

\* generate_summary, as the lines of the text
GenerateSummary(bookConfig, chapters) ==
  << << "#", " " >> \o PyText(DictGet(bookConfig, TitleKey, PyStr(<< "S", "u", "m", "m", "a", "r", "y" >>))), << >> >>
  \o [i \in 1..Len(chapters) |-> SummaryLine(chapters[i])]
  \o << << >> >>

\* What a step of a command gives: a value or lines, or the exception.
Config(v) == [exc |-> "none", val |-> v]

\* yaml.safe_load(f) or {}; a YAMLError is not caught, and generate_summary
\* calls get on what was loaded
ConfigOf(loaded) ==
  IF ~loaded.ok THEN Raise("YAMLError")
  ELSE IF ~Truthy(loaded.val) THEN Config(PyMap(NoEntries))
  ELSE IF loaded.val.t # "map" THEN Raise("AttributeError")
  ELSE Config(loaded.val)

\* book_config of new_chapter, over the file map fs
BookConfig(fs) ==
  IF BookYaml \in unreadable THEN Raise("UnicodeDecodeError")
  ELSE IF BookYaml \notin DOMAIN fs THEN Config(PyMap((TitleKey :> PyStr(<< "S", "u", "m", "m", "a", "r", "y" >>))))
  ELSE ConfigOf(YamlLoad(fs[BookYaml]))

\* the file map with SUMMARY.md written, unless reading the configuration
\* or scanning the chapters raised before
SummaryWritten(fs, config, scan) ==
  IF config.exc # "none" \/ scan.exc # "none" THEN fs
  ELSE (WriterSummary :> GenerateSummary(config.val, scan.chapters)) @@ fs

\* the end of new_chapter, from "Update SUMMARY.md" on, the chapter written
Resummed(fs) == SummaryWritten(fs, BookConfig(fs), ScanChapters(fs))

\* chapter_path.write_text(content)
ChapterWritten(path, content) == (path :> content) @@ files

MaxChapters == 2

\* The command new-chapter, for a chapter number and a chapter path.  Without
\* the chapters directory it exits and changes nothing.  write_text raises
\* when the path is a directory, and nothing is written.
WriteChapter(title, draft, chapterNum, path) ==
  IF path \in dirs
  THEN /\ raised' = "IsADirectoryError"
       /\ UNCHANGED << files, unreadable, written >>
  ELSE /\ files' = Resummed(ChapterWritten(path, ChapterContent(title, chapterNum, draft)))
       /\ unreadable' = unreadable \ {path}
       /\ written' = Append(written, [file_path |-> path, number |-> chapterNum, title |-> title])
       /\ UNCHANGED raised

\* the chapter written as the next one
WriteNext(title, draft, chapterNum) ==
  WriteChapter(title, draft, chapterNum,
               Join(ChaptersDir, ChapterFilename(chapterNum, Slugify(title))))

\* the titles given to new-chapter: plain, of digits, with an indicator and
\* a quote, empty, and with spaces around, an underscore and punctuation
WriterTitles ==
  { << "M", "y", " ", "T", "i", "t", "l", "e" >>, << "4", "2" >>, << "i", "t", "'", "s", ":", " ", "x" >>, << >>, << " ", "a", "_", "b", ",", " ", "#", "1", "!", " " >> }

\* new_chapter
NewChapterCommand ==
  /\ pc = "writer"
  /\ Exists(ChaptersDir)
  /\ Len(written) < MaxChapters
  /\ \E title \in WriterTitles, draft \in BOOLEAN :
       WriteNext(title, draft, GetNextChapterNumber)
  /\ UNCHANGED << dirs, pc, probed, entered, structure, reader >>

BookTitle == << "T", "h", "e", " ", "B", "o", "o", "k", ":", " ", "O", "n", "e" >>

BookAuthor == << "A", ".", " ", "A", "u", "t", "h", "o", "r" >>

DescriptionKey == << "d", "e", "s", "c", "r", "i", "p", "t", "i", "o", "n" >>

LanguageKey == << "l", "a", "n", "g", "u", "a", "g", "e" >>

CreatedKey == << "c", "r", "e", "a", "t", "e", "d" >>

\* yaml.dump(book_config, f, default_flow_style=False)
BookYamlText(title, author) ==
  << DumpEntry(AuthorKey, DumpStr(author)),
     DumpEntry(CreatedKey, DumpStr(Today)),
     DumpEntry(DescriptionKey, DumpStr(<< >>)),
     DumpEntry(LanguageKey, DumpStr(<< "e", "n" >>)),
     DumpEntry(TitleKey, DumpStr(title)) >>

\* init: the chapters directory, book.yaml and a SUMMARY.md of the title
InitCommand ==
  /\ pc = "writer"
  /\ dirs' = dirs \cup {ChaptersDir}
  /\ files' = (BookYaml :> BookYamlText(BookTitle, BookAuthor))
              @@ (WriterSummary :> << << "#", " " >> \o BookTitle, << >>, << >> >>)
              @@ files
  /\ unreadable' = unreadable \ {BookYaml, WriterSummary}
  /\ UNCHANGED << pc, probed, entered, structure, raised, written, reader >>

\* the detector is called on the chapters directory
StartDetection ==
  /\ pc = "writer"
  /\ Exists(ChaptersDir)
  /\ pc' = "summary"
  /\ UNCHANGED << files, unreadable, dirs, probed, entered, structure, raised, written, reader >>

(***************************************************************************)
(* Specification SpecWriter: from an empty directory, init and up to       *)
(* MaxChapters new chapters, then detect_structure on the chapters         *)
(* directory                                                               *)
(***************************************************************************)

InitWriter ==
  /\ files = [p \in {} |-> << >>]
  /\ unreadable = {}
  /\ dirs = {}
  /\ written = << >>
  /\ pc = "writer"
  /\ probed = << >>
  /\ entered = << >>
  /\ structure = NoStructure
  /\ raised = "none"
  /\ reader = NoReader

NextWriter == InitCommand \/ NewChapterCommand \/ StartDetection \/ Detect

SpecWriter == InitWriter /\ [][NextWriter]_vars

\* C6: whatever chapters new-chapter has written, the detector run on the
\* chapters directory returns by auto-detection, without raising, a
\* structure in which every file written is a chapter with the number and
\* the title it was written with.
C6_WrittenChaptersDetected ==
  pc = "done" =>
    /\ raised = "none"
    /\ structure.format_type = "auto"
    /\ \A k \in 1..Len(written) :
         \E i \in DOMAIN structure.chapters :
           /\ structure.chapters[i].file_path = written[k].file_path
           /\ structure.chapters[i].number = written[k].number
           /\ structure.chapters[i].title = PyStr(written[k].title)

\* Two chapters were written, one with a title of digits and one with an
\* empty title, and both were detected with their numbers and titles.
C6_Witness ==
  /\ pc = "done"
  /\ raised = "none"
  /\ Len(written) = 2
  /\ written[1].title = << "4", "2" >>
  /\ written[2].title = << >>
  /\ \E i, j \in DOMAIN structure.chapters :
       /\ structure.chapters[i].file_path = written[1].file_path
       /\ structure.chapters[i].title = PyStr(<< "4", "2" >>)
       /\ structure.chapters[i].number = 1
       /\ structure.chapters[j].file_path = written[2].file_path
       /\ structure.chapters[j].title = PyStr(<< >>)
       /\ structure.chapters[j].number = 2

(***************************************************************************)
(* Properties of the numbers of the chapters                               *)
(***************************************************************************)

\* C11: in every structure returned a chapter has the number 0 exactly when
\* it is the intro chapter, and every other chapter has a positive number,
\* whatever the frontmatter of the files holds.
C11_ZeroIffIntro ==
  HasReturned =>
    \A i \in DOMAIN structure.chapters :
      /\ structure.chapters[i].number = 0 <=> structure.chapters[i].is_intro
      /\ ~structure.chapters[i].is_intro => structure.chapters[i].number > 0

(***************************************************************************)
(* Specification SpecIntro: detect_structure on books whose SUMMARY.md     *)
(* links intro-named files in the root and in a directory                  *)
(***************************************************************************)

DocsMd == << "s", "r", "c", "/", "I", "n", "d", "e", "x", ".", "m", "d" >>

\* the shelf and an intro-named file in src/
ShelfWithDocs == Put(Shelf, DocsMd, Readable(<< << "#", " ", "D", "o", "c", "s" >> >>))

\* lines of a SUMMARY.md: links to two intro-named files of the root, to a
\* file that is none, to an intro-named file in a directory, to another file
\* there, and a line with no link
IntroLinePool ==
  { << "-", " ", "[", "H", "o", "m", "e", "]", "(", "i", "n", "d", "e", "x", ".", "m", "d", ")" >>,
    << "-", " ", "[", "S", "t", "a", "r", "t", "]", "(", "i", "n", "t", "r", "o", "d", "u", "c", "t", "i", "o", "n", ".", "m", "d", ")" >>,
    << "-", " ", "[", "O", "n", "e", "]", "(", "o", "n", "e", ".", "m", "d", ")" >>,
    << "-", " ", "[", "D", "o", "c", "s", "]", "(", "s", "r", "c", "/", "I", "n", "d", "e", "x", ".", "m", "d", ")" >>,
    << "-", " ", "[", "T", "w", "o", "]", "(", "s", "r", "c", "/", "t", "w", "o", ".", "m", "d", ")" >>,
    << "#", " ", "S", "u", "m", "m", "a", "r", "y" >> }

InitIntro ==
  \E text \in TextsOver(IntroLinePool, MaxLines) :
    StartOn(Put(ShelfWithDocs, SummaryMd, Readable(text)))

NextIntro == CheckSummary

SpecIntro == InitIntro /\ [][NextIntro]_vars

\* the filename of the file, compared without case, is an intro name
IntroNamed(path) == Lower(NameOf(path)) \in SummaryIntroNames

\* the numbers claimed for the files of the links, in order: 0 and intro for
\* the first intro-named file, the next positional number for every other
RECURSIVE ClaimedNumbers(_, _, _)
ClaimedNumbers(paths, seenIntro, n) ==
  IF paths = << >> THEN << >>
  ELSE IF IntroNamed(Head(paths)) /\ ~seenIntro
  THEN << [number |-> 0, is_intro |-> TRUE] >>
       \o ClaimedNumbers(Tail(paths), TRUE, n)
  ELSE << [number |-> n + 1, is_intro |-> FALSE] >>
       \o ClaimedNumbers(Tail(paths), seenIntro, n + 1)

\* C12: the SUMMARY.md parser returns the format type 'summary' and one
\* chapter for each link that resolves, in link order; the first link whose
\* resolved file has the filename readme.md, index.md or introduction.md
\* (compared without case, in whatever directory) is the intro chapter with
\* number 0, and every other link, a later intro-named one included, gets
\* the positional numbers 1, 2, 3, ... in order.
C12_FirstIntroLinkIsZero ==
  (HasReturned /\ SummaryMd \in DOMAIN files) =>
    LET firsts == ResolvableLinks(SummaryMd, FirstLinksOfText(files[SummaryMd]))
        want == ClaimedNumbers(firsts, FALSE, 0)
    IN  /\ structure.format_type = "summary"
        /\ ChapterFiles = firsts
        /\ \A i \in DOMAIN structure.chapters :
             /\ structure.chapters[i].assigned = want[i].number
             /\ structure.chapters[i].is_intro = want[i].is_intro

(***************************************************************************)
(* Properties of the fallback to auto-detection                            *)
(***************************************************************************)

\* the manifest at place k of the order cannot be read, or its text is no
\* YAML (_bookdown.yml) or no TOML (book.toml)
Unusable(k) ==
  \/ ManifestPaths[k] \in unreadable
  \/ /\ k = 3
     /\ BookdownYml \in DOMAIN files
     /\ ~YamlLoad(files[BookdownYml]).ok
  \/ /\ k = 4
     /\ BookToml \in DOMAIN files
     /\ ~TomlLoads(files[BookToml]).ok

\* the structure returned is one that auto-detection computes for the root
IsAutoDetected ==
  /\ raised = "none"
  /\ \E ls \in Listings : structure = AutoDetect(ls, << >>).structure

Chapter01 == << "c", "h", "a", "p", "t", "e", "r", "-", "0", "1" >>

Chapter02 == << "c", "h", "a", "p", "t", "e", "r", "-", "0", "2" >>

\* chapter-01 has a content directory, chapter-02 has none
DirsOfChapters == { Chapter01, Join(Chapter01, ContentDir), Chapter02 }

\* Files for the directories: in chapter-01/content a draft, a revised and
\* a final file; a file of chapter-01 itself; in chapter-02 two files whose
\* names end in "complete", two plain files and an underscored file.
DirPool ==
  { << "c", "h", "a", "p", "t", "e", "r", "-", "0", "1", "/", "c", "o", "n", "t", "e", "n", "t", "/", "d", "r", "a", "f", "t", ".", "m", "d" >>,
    << "c", "h", "a", "p", "t", "e", "r", "-", "0", "1", "/", "c", "o", "n", "t", "e", "n", "t", "/", "r", "e", "v", "i", "s", "e", "d", ".", "m", "d" >>,
    << "c", "h", "a", "p", "t", "e", "r", "-", "0", "1", "/", "c", "o", "n", "t", "e", "n", "t", "/", "F", "i", "n", "a", "l", ".", "m", "d" >>,
    << "c", "h", "a", "p", "t", "e", "r", "-", "0", "1", "/", "n", "o", "t", "e", "s", ".", "m", "d" >>,
    << "c", "h", "a", "p", "t", "e", "r", "-", "0", "2", "/", "x", "-", "c", "o", "m", "p", "l", "e", "t", "e", ".", "m", "d" >>,
    << "c", "h", "a", "p", "t", "e", "r", "-", "0", "2", "/", "y", "-", "C", "O", "M", "P", "L", "E", "T", "E", ".", "m", "d" >>,
    << "c", "h", "a", "p", "t", "e", "r", "-", "0", "2", "/", "a", ".", "m", "d" >>,
    << "c", "h", "a", "p", "t", "e", "r", "-", "0", "2", "/", "b", ".", "m", "d" >>,
    << "c", "h", "a", "p", "t", "e", "r", "-", "0", "2", "/", "_", "c", "o", "m", "p", "l", "e", "t", "e", ".", "m", "d" >> }

InitDirs ==
  \E names \in SUBSET DirPool :
    /\ Cardinality(names) <= MaxFiles
    /\ StartOn(Book([p \in names |-> << << "t", "e", "x", "t" >> >>], {}, DirsOfChapters))

NextDirs == Detect

SpecDirs == InitDirs /\ [][NextDirs]_vars

\* the chapter-* entries of the root
ChapterDirs ==
  { d \in Entries : Parent(d) = Root /\ StartsWith(NameOf(d), ChapterDash) }

\* the markdown files of a directory
MdIn(dir) ==
  { p \in DOMAIN files \cup unreadable :
      Parent(p) = dir /\ EndsWith(NameOf(p), DotMd) }

\* the candidates of a chapter-* directory: the markdown files of its
\* content directory if it has any, else its own files that are not
\* underscored
Candidates(d) ==
  IF MdIn(Join(d, ContentDir)) # {} THEN MdIn(Join(d, ContentDir))
  ELSE { p \in MdIn(d) : ~StartsWith(NameOf(p), << "_" >>) }

\* the place in the priority of the first suffix the name ends in, one more
\* than the last place when it ends in none
SuffixRank(path) ==
  IF \E k \in DOMAIN PrioritySuffixes : MatchesSuffix(path, PrioritySuffixes[k])
  THEN CHOOSE k \in DOMAIN PrioritySuffixes :
         /\ MatchesSuffix(path, PrioritySuffixes[k])
         /\ \A j \in 1..(k - 1) : ~MatchesSuffix(path, PrioritySuffixes[j])
  ELSE Len(PrioritySuffixes) + 1

\* the candidates of the directory that became chapters
ChosenOf(d) == Range(ChapterFiles) \cap Candidates(d)

\* C14: under every order of the directory listings, a chapter-* directory
\* with candidates contributes exactly one of them, and one whose suffix
\* comes earliest in the priority complete, enhanced, revised, final
\* (matched without case) among the suffixes of all its candidates; so a
\* file that matches no suffix is taken only when no candidate matches one.
\* A directory without candidates contributes nothing.
C14_EarliestSuffixWins ==
  (HasReturned /\ ChapterDirs # {}) =>
    /\ Range(ChapterFiles) = UNION { ChosenOf(d) : d \in ChapterDirs }
    /\ \A d \in ChapterDirs :
         /\ Cardinality(ChosenOf(d)) = IF Candidates(d) = {} THEN 0 ELSE 1
         /\ \A p \in ChosenOf(d) : \A q \in Candidates(d) :
              SuffixRank(p) <= SuffixRank(q)

\* chapter-01/content held draft.md, revised.md and Final.md, and
\* revised.md became the chapter.
C14_Witness ==
  /\ HasReturned
  /\ Cardinality(MdIn(Join(Chapter01, ContentDir))) = 3
  /\ ChapterFiles = << << "c", "h", "a", "p", "t", "e", "r", "-", "0", "1", "/", "c", "o", "n", "t", "e", "n", "t", "/", "r", "e", "v", "i", "s", "e", "d", ".", "m", "d" >> >>

(***************************************************************************)
(* Specification SpecOrder: detect_structure on books without a manifest,  *)
(* holding up to MaxFiles of files with small, equal, large and no numbers *)
(***************************************************************************)

BigMd == << "1", "0", "0", "0", "0", "0", "0", "-", "b", "i", "g", ".", "m", "d" >>

\* Names for the root: a number above 999999, a small number, a number by
\* a chapter word, two names with the same number that differ in the case
\* of the next letter, and two names without a number that differ in case.
OrderPool ==
  { BigMd,
    << "2", "-", "t", "w", "o", ".", "m", "d" >>,
    << "c", "h", "3", ".", "m", "d" >>,
    << "0", "1", "-", "B", ".", "m", "d" >>,
    << "0", "1", "-", "a", ".", "m", "d" >>,
    << "B", ".", "m", "d" >>,
    << "a", ".", "m", "d" >> }

InitOrder ==
  \E names \in SUBSET OrderPool :
    /\ Cardinality(names) <= MaxFiles
    /\ StartOn(Book([p \in names |-> << << "t", "e", "x", "t" >> >>], {}, {}))

NextOrder == Detect

SpecOrder == InitOrder /\ [][NextOrder]_vars

\* a number can be extracted from the name: it starts with digits, or a
\* chapter pattern matches it
HasNumberInName(path) ==
  \/ DigitRun(Stem(path)) > 0
  \/ \E k \in DOMAIN ChapterWords :
       NumberAfterWord(Lower(NameOf(path)), ChapterWords[k]) >= 0

\* the lowercase filename of p does not come after the one of q
LowerNameOrdered(p, q) == ~StrLess(Lower(NameOf(q)), Lower(NameOf(p)))

\* C15: in the order of auto-detection no file without a number in its name
\* comes before a file with one, however large the number; the files
\* without a number are in the order of their lowercase filenames, and so
\* are the files with equal numbers.
C15_UnnumberedLastByLowercaseName ==
  (HasReturned /\ structure.format_type = "auto") =>
    \A i, j \in DOMAIN NonIntro :
      i < j =>
        /\ ~(~HasNumberInName(NonIntro[i].file_path)
               /\ HasNumberInName(NonIntro[j].file_path))
        /\ (~HasNumberInName(NonIntro[i].file_path)
               /\ ~HasNumberInName(NonIntro[j].file_path))
             => LowerNameOrdered(NonIntro[i].file_path, NonIntro[j].file_path)
        /\ (/\ HasNumberInName(NonIntro[i].file_path)
            /\ HasNumberInName(NonIntro[j].file_path)
            /\ ExtractSortKey(NonIntro[i].file_path).n
                 = ExtractSortKey(NonIntro[j].file_path).n)
             => LowerNameOrdered(NonIntro[i].file_path, NonIntro[j].file_path)

(***************************************************************************)
(* Specification SpecFlat: detect_structure on books without a manifest    *)
(* and without directories, holding up to MaxFiles top-level files         *)
(***************************************************************************)

ChapterFileMd == << "c", "h", "a", "p", "t", "e", "r", "-", "0", "1", ".", "m", "d" >>

\* Names for the root: two intro names, a plain name, an underscored name,
\* a name of the skip list, the manifest's name in lower case, and a name
\* of the chapter pattern.
FlatPool ==
  { << "R", "E", "A", "D", "M", "E", ".", "m", "d" >>,
    IndexMd,
    OneMd,
    << "_", "d", "r", "a", "f", "t", ".", "m", "d" >>,
    << "C", "H", "A", "N", "G", "E", "L", "O", "G", ".", "m", "d" >>,
    << "s", "u", "m", "m", "a", "r", "y", ".", "m", "d" >>,
    ChapterFileMd }

InitFlat ==
  \E names \in SUBSET FlatPool :
    /\ Cardinality(names) <= MaxFiles
    /\ StartOn(Book([p \in names |-> << << "t", "e", "x", "t" >> >>], {}, {}))

NextFlat == Detect

SpecFlat == InitFlat /\ [][NextFlat]_vars

\* the files of the intro chapters returned
IntroClaimed == { structure.chapters[i].file_path : i \in IntroPlaces }

\* the top-level markdown files that are to become numbered chapters
FlatChapterFiles ==
  { p \in MdIn(Root) :
      /\ ~StartsWith(NameOf(p), << "_" >>)
      /\ NameOf(p) \notin {SummaryMd, BookTxt}
      /\ NameOf(p) \notin SKIP_FILES
      /\ p \notin IntroClaimed }

\* C16: when the root has no chapter-* directory, the numbered chapters of
\* auto-detection are exactly the top-level markdown files that are not
\* underscored, not named SUMMARY.md or Book.txt, not in the skip set and
\* not the file of the intro chapter, each of them once.
C16_FlatFilesAreChapters ==
  (HasReturned /\ structure.format_type = "auto"
     /\ ChapterDirs \cap dirs = {}) =>
    /\ { NonIntro[i].file_path : i \in DOMAIN NonIntro } = FlatChapterFiles
    /\ Len(NonIntro) = Cardinality(FlatChapterFiles)

(***************************************************************************)
(* Specification SpecLeanpub: detect_structure on books whose Book.txt     *)
(* holds up to MaxLines lines, with and without a manuscript directory     *)
(***************************************************************************)

\* the shelf and a file of the manuscript directory that has the name of a
\* file of the root
ShelfWithManuscript ==
  Put(Shelf, Join(Manuscript, OneMd), Readable(<< << "#", " ", "M", "a", "n", "u", "s", "c", "r", "i", "p", "t", " ", "O", "n", "e" >> >>))

\* the same root without a manuscript directory
ShelfWithoutManuscript ==
  Book([p \in { q \in DOMAIN Shelf.files : Parent(q) # Manuscript } |-> Shelf.files[p]],
       {}, Shelf.dirs \ {Manuscript})

\* lines of a Book.txt: a file that is in manuscript/ and in the root, a
\* file of the root only (an intro name, with blanks around it), a file of
\* manuscript/ only (an intro name), a blank line, a comment, a section
\* marker, and a file that is nowhere
BookTxtLinePool ==
  { OneMd,
    << " ", "i", "n", "t", "r", "o", "d", "u", "c", "t", "i", "o", "n", ".", "m", "d", " " >>,
    << "p", "r", "e", "f", "a", "c", "e", ".", "m", "d" >>,
    << >>,
    << "#", " ", "f", "i", "l", "e", "s" >>,
    << "m", "a", "i", "n", "m", "a", "t", "t", "e", "r", ":" >>,
    << "n", "o", "n", "e", ".", "m", "d" >> }

InitLeanpub ==
  \E shelf \in {ShelfWithManuscript, ShelfWithoutManuscript},
     text \in TextsOver(BookTxtLinePool, MaxLines) :
    StartOn(Put(shelf, BookTxt, Readable(text)))

NextLeanpub == CheckSummary \/ CheckLeanpub

SpecLeanpub == InitLeanpub /\ [][NextLeanpub]_vars

\* the directory the claim resolves the lines against
LeanpubBase == IF Exists(Manuscript) THEN Manuscript ELSE Root

\* the files that the lines name, in order, under the base directory or,
\* with fallback, under the root when the base directory has no such file;
\* lines that are skipped or name no existing markdown file are left out
RECURSIVE EntriesOf(_, _)
EntriesOf(lines, fallback) ==
  IF lines = << >> THEN << >>
  ELSE LET line == Strip(Head(lines))
           path == IF fallback /\ ~Exists(Join(LeanpubBase, line))
                   THEN Join(Root, line)
                   ELSE Join(LeanpubBase, line)
       IN  (IF ~LeanpubSkips(line) /\ Exists(path) /\ Suffix(path) = DotMd
            THEN << path >> ELSE << >>)
           \o EntriesOf(Tail(lines), fallback)

\* C17 as claimed: the chapters of Book.txt are, in file order, the lines
\* that name an existing markdown file of the manuscript directory when
\* there is one, else of the root; blank lines, comments and section
\* markers give no chapter; and the non-intro chapters are numbered 1, 2,
\* 3, ... by position.
C17_LinesResolvedInOneDirectory ==
  (HasReturned /\ BookTxt \in DOMAIN files /\ ~Exists(SummaryMd)) =>
    /\ ChapterFiles = EntriesOf(files[BookTxt], FALSE)
    /\ \A i \in DOMAIN NonIntro : NonIntro[i].assigned = i

\* C17, amended: a line is resolved against the manuscript directory when
\* there is one and the file is there, and against the root otherwise; the
\* rest is as claimed.
C17_LinesResolvedWithFallback ==
  (HasReturned /\ BookTxt \in DOMAIN files /\ ~Exists(SummaryMd)) =>
    /\ structure.format_type = "leanpub"
    /\ ChapterFiles = EntriesOf(files[BookTxt], TRUE)
    /\ \A i \in DOMAIN NonIntro : NonIntro[i].assigned = i

\* With a manuscript directory, a Book.txt of a marker, an intro file found
\* only in the root and a file found in manuscript/ gave the intro chapter
\* and chapter 1.
C17_Witness ==
  /\ HasReturned
  /\ Exists(Manuscript)
  /\ files[BookTxt] = << << "m", "a", "i", "n", "m", "a", "t", "t", "e", "r", ":" >>, << " ", "i", "n", "t", "r", "o", "d", "u", "c", "t", "i", "o", "n", ".", "m", "d", " " >>, OneMd >>
  /\ ChapterFiles = << IntroductionMd, Join(Manuscript, OneMd) >>
  /\ structure.chapters[1].number = 0
  /\ structure.chapters[2].number = 1

(***************************************************************************)
(* Properties of the _bookdown.yml parser                                  *)
(***************************************************************************)

\* C18: in a structure of the _bookdown.yml parser only the first chapter
\* produced from the list can be the intro chapter: once an entry has become
\* a chapter, intro or numbered, no later entry is classified as intro, so
\* at most one chapter has the number 0.
C18_BookdownFirstMatchWins ==
  (HasReturned /\ structure.format_type = "bookdown") =>
    /\ \A i \in DOMAIN structure.chapters :
         structure.chapters[i].is_intro => i = 1
    /\ Cardinality({ i \in DOMAIN structure.chapters :
                       structure.chapters[i].assigned = 0 }) <= 1

(***************************************************************************)
(* Properties of the book.toml parser                                      *)
(***************************************************************************)

\* the [book] table of book.toml; the empty table when the file cannot be
\* read, is no TOML, or has no such table
BookTable ==
  IF /\ BookToml \in DOMAIN files
     /\ TomlLoads(files[BookToml]).ok
     /\ HasKey(TomlLoads(files[BookToml]).val, BookKey)
     /\ TomlLoads(files[BookToml]).val.kv[BookKey].t = "map"
  THEN TomlLoads(files[BookToml]).val.kv[BookKey]
  ELSE PyMap(NoEntries)

\* the title of the table, None when it has none
TableTitle == IF HasKey(BookTable, TitleKey) THEN BookTable.kv[TitleKey] ELSE PyNone

\* the first author of the table, None when it names none
TableAuthor ==
  IF /\ HasKey(BookTable, AuthorsKey)
     /\ BookTable.kv[AuthorsKey].t = "list"
     /\ BookTable.kv[AuthorsKey].xs # << >>
  THEN BookTable.kv[AuthorsKey].xs[1]
  ELSE PyNone

\* the chapters are those the SUMMARY.md parser gives for src/SUMMARY.md:
\* the chapters of its links, or of auto-detection when it cannot read it
ChaptersOfSrcSummary(got) ==
  IF got.fallback
  THEN \E ls \in Listings :
         structure.chapters = AutoDetect(ls, << >>).structure.chapters
  ELSE /\ structure.chapters = got.structure.chapters
       /\ ChapterFiles
            = ResolvableLinks(SrcSummary, FirstLinksOfText(files[SrcSummary]))

\* C19: when book.toml is the first manifest and src/SUMMARY.md exists, the
\* structure returned has the format type 'mdbook', the title and the first
\* author of the [book] table (none when the table or the TOML is missing
\* or cannot be parsed) and the chapters the SUMMARY.md parser gives for
\* src/SUMMARY.md, its links resolved under the root, else under src/; when
\* src/SUMMARY.md does not exist the result is the one of auto-detection.
C19_MdbookDelegatesToSrcSummary ==
  (pc = "done" /\ FirstManifest = 4) =>
    IF Exists(SrcSummary)
    THEN /\ raised = "none"
         /\ structure.format_type = "mdbook"
         /\ structure.title = TableTitle
         /\ structure.author = TableAuthor
         /\ ChaptersOfSrcSummary(ParseSummaryMd(SrcSummary, << >>))
    ELSE IsAutoDetected

\* book.toml with a [book] table was the first manifest, and the structure
\* returned has its title and author and the chapters of src/SUMMARY.md,
\* one resolved under src/ and one under the root.
C19_Witness ==
  /\ pc = "done"
  /\ FirstManifest = 4
  /\ structure.format_type = "mdbook"
  /\ structure.title = PyStr(<< "T" >>)
  /\ structure.author = PyStr(<< "A" >>)
  /\ ChapterFiles = << << "s", "r", "c", "/", "t", "w", "o", ".", "m", "d" >>, OneMd >>
  /\ structure.chapters[1].number = 1
  /\ structure.chapters[2].number = 2

(***************************************************************************)
(* Specification SpecListing: detect_structure on the books of SpecDirs    *)
(* (chapter-* directories) and of SpecOrder (flat), under every order of   *)
(* the directory listings                                                  *)
(***************************************************************************)

InitListing == InitDirs \/ InitOrder

NextListing == Detect

SpecListing == InitListing /\ [][NextListing]_vars

\* auto-detection gives the chapters returned under every order of the
\* directory listings
SameUnderEveryListing ==
  \A ls \in Listings :
    AutoDetect(ls, << >>).structure.chapters = structure.chapters

\* C20 as claimed: the chapter list returned does not depend on the order
\* in which the directories are listed, in flat mode and with chapter-*
\* directories.
C20_ListingOrderIrrelevant ==
  (HasReturned /\ structure.format_type = "auto") => SameUnderEveryListing

\* the candidates of the directory whose suffix comes earliest in the
\* priority
BestCandidates(d) ==
  { p \in Candidates(d) : \A q \in Candidates(d) : SuffixRank(p) <= SuffixRank(q) }

\* C20, amended: the chapter list does not depend on the listing order in
\* flat mode, and with chapter-* directories when in every directory at
\* most one candidate has the earliest suffix of the priority.  (When several
\* candidates match the same earliest suffix, or none matches any and there
\* are several, the first one listed is taken.)
C20_ListingOrderIrrelevantIfOneBest ==
  (/\ HasReturned
   /\ structure.format_type = "auto"
   /\ \A d \in ChapterDirs : Cardinality(BestCandidates(d)) <= 1)
    => SameUnderEveryListing

\* chapter-02 held x-complete.md, a.md and b.md, listed in one of six
\* orders, and x-complete.md is the chapter.
C20_Witness ==
  /\ HasReturned
  /\ Cardinality(Candidates(Chapter02)) = 3
  /\ Cardinality(BestCandidates(Chapter02)) = 1
  /\ ChapterFiles = << << "c", "h", "a", "p", "t", "e", "r", "-", "0", "2", "/", "x", "-", "c", "o", "m", "p", "l", "e", "t", "e", ".", "m", "d" >> >>
  /\ SameUnderEveryListing

(***************************************************************************)
(* Specification SpecNumbering: new-chapter, up to MaxChapters times, on a *)
(* chapters directory that already holds up to MaxFiles entries            *)
(***************************************************************************)

\* a directory of the chapters directory with the name of a chapter file:
\* the one new-chapter names for an empty title and the number 1
EmptySlugDir == << "0", "1", "-", ".", "m", "d" >>

\* the files there may be before: a chapter with the slug of a title that
\* new-chapter is given and a number of two digits, so that the next number
\* has three; a numbered file with another suffix; and a file with no
\* number
ExistingPool ==
  { << "9", "9", "-", "m", "y", "-", "t", "i", "t", "l", "e", ".", "m", "d" >>, << "1", "0", "0", "-", "a", ".", "t", "x", "t" >>, << "n", "o", "t", "e", "s", ".", "m", "d" >> }

InitNumbering ==
  \E names \in SUBSET ExistingPool, ds \in SUBSET {EmptySlugDir} :
    /\ Cardinality(names) + Cardinality(ds) <= MaxFiles
    /\ files = [p \in names |-> << << "t", "e", "x", "t" >> >>]
    /\ unreadable = {}
    /\ dirs = {ChaptersDir} \cup ds
    /\ written = << >>
    /\ pc = "writer"
    /\ probed = << >>
    /\ entered = << >>
    /\ structure = NoStructure
    /\ raised = "none"
    /\ reader = NoReader

NextNumbering == NewChapterCommand

SpecNumbering == InitNumbering /\ [][NextNumbering]_vars

\* the files of the chapters directory
InChaptersDir == { p \in DOMAIN files \cup unreadable : Parent(p) = ChaptersDir }

\* the integer a filename starts with, for a name that starts with a digit
LeadingInteger(name) == DecimalValue(SubSeq(name, 1, DigitRun(name)))

\* the leading integers of the existing .md filenames
LeadingIntegers ==
  { LeadingInteger(NameOf(p)) :
      p \in { q \in InChaptersDir : Suffix(q) = DotMd /\ DigitRun(NameOf(q)) > 0 } }

\* the largest of them
IsLargestLeading(m) == m \in LeadingIntegers /\ \A n \in LeadingIntegers : n <= m

\* the step is a new-chapter operation that has created its file
CreatesChapter == Len(written') = Len(written) + 1

\* the chapter the step has created
Created == written'[Len(written')]

\* the state of a file is what it was before the step
Untouched(p) ==
  /\ p \in unreadable <=> p \in unreadable'
  /\ p \in DOMAIN files <=> p \in DOMAIN files'
  /\ p \in DOMAIN files => files'[p] = files[p]

\* what C21 says of one new-chapter operation
NumberedNext ==
  /\ IF LeadingIntegers = {} THEN Created.number = 1
     ELSE \E m \in LeadingIntegers : IsLargestLeading(m) /\ Created.number = m + 1
  /\ written # << >> => Created.number > written[Len(written)].number
  /\ Parent(Created.file_path) = ChaptersDir
  /\ LeadingInteger(NameOf(Created.file_path)) = Created.number
  /\ ~Exists(Created.file_path)
  /\ Created.file_path \in DOMAIN files'
  /\ \A p \in InChaptersDir : Untouched(p)

\* C21: every new-chapter operation that creates a file gives it the number
\* one greater than the largest leading integer among the existing .md
\* filenames of the chapters directory, 1 when there is none; the number is
\* greater than the number of the operation before; the new file's name is
\* the name of no existing file; and every file of the chapters directory is
\* left as it was.
C21_WriterNumbering == [][CreatesChapter => NumberedNext]_vars

\* 99-my-title.md, 100-a.txt and notes.md were there, and two chapters were
\* created, 100-my-title.md and then the chapter 101, the old files still
\* there with their text.
C21_Witness ==
  /\ Len(written) = 2
  /\ written[1].number = 100
  /\ written[1].file_path = << "1", "0", "0", "-", "m", "y", "-", "t", "i", "t", "l", "e", ".", "m", "d" >>
  /\ written[2].number = 101
  /\ { << "9", "9", "-", "m", "y", "-", "t", "i", "t", "l", "e", ".", "m", "d" >>, << "1", "0", "0", "-", "a", ".", "t", "x", "t" >>, << "n", "o", "t", "e", "s", ".", "m", "d" >>, << "1", "0", "0", "-", "m", "y", "-", "t", "i", "t", "l", "e", ".", "m", "d" >> } \subseteq DOMAIN files
  /\ files[<< "9", "9", "-", "m", "y", "-", "t", "i", "t", "l", "e", ".", "m", "d" >>] = << << "t", "e", "x", "t" >> >>

(***************************************************************************)
(* The reader (book_reader.py): the chapter index and the navigation       *)
(***************************************************************************)

\* {ch.number: ch for ch in self.structure.chapters}: of the chapters with
\* the same number the last one stays
IndexOfChapters(chs) ==
  [n \in { chs[i].number : i \in 1..Len(chs) } |->
     chs[CHOOSE i \in 1..Len(chs) :
           /\ chs[i].number = n
           /\ \A j \in 1..Len(chs) : chs[j].number = n => j <= i]]

\* [c.number for c in self.chapters.values() if not c.is_intro]
NonIntroNumbers(index) ==
  { index[n].number : n \in { k \in DOMAIN index : ~index[k].is_intro } }

\* min(non_intro)
MinNumber(numbers) == CHOOSE m \in numbers : \A n \in numbers : m <= n

\* min(non_intro) if non_intro else 0
FirstChapter(index) ==
  IF NonIntroNumbers(index) # {} THEN MinNumber(NonIntroNumbers(index)) ELSE 0

\* BookReader.__init__, once detect_structure has returned: when it raised,
\* so does the constructor
BookReader ==
  /\ HasReturned
  /\ ~reader.constructed
  /\ reader' = [constructed |-> TRUE,
                chapters |-> IndexOfChapters(structure.chapters),
                total_chapters |-> Cardinality(NonIntroNumbers(IndexOfChapters(structure.chapters))),
                current_chapter |-> FirstChapter(IndexOfChapters(structure.chapters))]
  /\ UNCHANGED << files, unreadable, dirs, pc, probed, entered, structure, raised, written >>

\* sorted(self.chapters.keys())
RECURSIVE SortedNumbers(_)
SortedNumbers(numbers) ==
  IF numbers = {} THEN << >>
  ELSE << MinNumber(numbers) >> \o SortedNumbers(numbers \ {MinNumber(numbers)})

available_chapters == SortedNumbers(DOMAIN reader.chapters)

\* available_chapters.index(self.current_chapter), 0 on ValueError; as a
\* position that counts from 1
current_index ==
  IF reader.current_chapter \in DOMAIN reader.chapters
  THEN CHOOSE i \in 1..Len(available_chapters) : available_chapters[i] = reader.current_chapter
  ELSE 1

\* self.current_chapter = n
MovedTo(n) == [reader EXCEPT !.current_chapter = n]

\* BookReader.next_chapter
next_chapter ==
  /\ reader.constructed
  /\ reader' = IF current_index < Len(available_chapters)
               THEN MovedTo(available_chapters[current_index + 1])
               ELSE reader
  /\ UNCHANGED << files, unreadable, dirs, pc, probed, entered, structure, raised, written >>

\* BookReader.previous_chapter
previous_chapter ==
  /\ reader.constructed
  /\ reader' = IF current_index > 1
               THEN MovedTo(available_chapters[current_index - 1])
               ELSE reader
  /\ UNCHANGED << files, unreadable, dirs, pc, probed, entered, structure, raised, written >>

\* the chapter numbers the user asks for
MaxJump == 8

JumpNumbers == 0..MaxJump

\* BookReader.jump_to_chapter
jump_to_chapter(chapter_num) ==
  /\ reader.constructed
  /\ reader' = IF chapter_num \in DOMAIN reader.chapters THEN MovedTo(chapter_num) ELSE reader
  /\ UNCHANGED << files, unreadable, dirs, pc, probed, entered, structure, raised, written >>

Navigate ==
  \/ next_chapter
  \/ previous_chapter
  \/ \E n \in JumpNumbers : jump_to_chapter(n)

(***************************************************************************)
(* Specification SpecReader: a BookReader is constructed on a flat book of *)
(* up to MaxFiles chapter files, with a README.md or none, and the user    *)
(* navigates                                                               *)
(***************************************************************************)

ReadmeUpperMd == << "R", "E", "A", "D", "M", "E", ".", "m", "d" >>

\* the text of a file whose frontmatter gives the chapter number
NumberedText(digits) ==
  << Dashes, << "c", "h", "a", "p", "t", "e", "r", ":", " " >> \o digits, Dashes, << "t", "e", "x", "t" >> >>

\* README.md: none, one without frontmatter, one whose frontmatter numbers it
ReadmeOptions ==
  { Absent, Readable(<< << "#", " ", "B", "o", "o", "k" >> >>), Readable(NumberedText(<< "7" >>)) }

\* the chapter files there may be: two that keep the number of their
\* position, one that its frontmatter numbers 5, and one that its
\* frontmatter numbers 1
ReaderTexts ==
  (<< "0", "1", "-", "a", ".", "m", "d" >> :> << << "t", "e", "x", "t" >> >>)
  @@ (<< "0", "2", "-", "b", ".", "m", "d" >> :> << << "t", "e", "x", "t" >> >>)
  @@ (<< "0", "3", "-", "c", ".", "m", "d" >> :> NumberedText(<< "5" >>))
  @@ (<< "0", "4", "-", "d", ".", "m", "d" >> :> NumberedText(<< "1" >>))

InitReader ==
  \E names \in SUBSET DOMAIN ReaderTexts, readme \in ReadmeOptions :
    /\ Cardinality(names) <= MaxFiles
    /\ StartOn(Put(Book([p \in names |-> ReaderTexts[p]], {}, {}), ReadmeUpperMd, readme))

NextReader == Detect \/ BookReader \/ Navigate

SpecReader == InitReader /\ [][NextReader]_vars

\* the numbers of the reader's chapter index
IndexedNumbers == DOMAIN reader.chapters

\* the reader is where it was
Stays == reader'.current_chapter = reader.current_chapter

\* the reader of a book with chapters is on a chapter of its index
CurrentIsIndexed ==
  (reader.constructed /\ structure.chapters # << >>)
    => reader.current_chapter \in IndexedNumbers

\* next_chapter at the highest number, previous_chapter at the lowest and
\* jump_to_chapter to a number that is not in the index leave the reader
\* where it is
StopsAtTheEnds ==
  /\ (next_chapter /\ \A n \in IndexedNumbers : n <= reader.current_chapter) => Stays
  /\ (previous_chapter /\ \A n \in IndexedNumbers : n >= reader.current_chapter) => Stays
  /\ \A n \in JumpNumbers \ IndexedNumbers : jump_to_chapter(n) => Stays

\* C22: when the detected chapter list is not empty, the reader's
\* current_chapter is a number of its chapter index once it is constructed
\* and after every next_chapter, previous_chapter and jump_to_chapter; and
\* next_chapter at the highest-numbered chapter, previous_chapter at the
\* lowest-numbered chapter and jump_to_chapter to a number that is not in
\* the index leave current_chapter as it is.
C22_ReaderNavigation == [] CurrentIsIndexed /\ [][StopsAtTheEnds]_vars

=============================================================================
